---- MODULE Spec2Model ----
\* Lattice: the Store (master/db.py), the Command Router / Agent Session
\* (master/main.py) and the command execution of the agent (agent/main.py),
\* modelled as state machines.
\*
\* Conventions.  SQL NULL / Python None is Null (0) for integer-coded columns
\* (ids and tokens start at 1, a timestamp is never 0) and "NULL" for text columns.
\* uuid4() and secrets.token_urlsafe() are modelled as fresh counters: a value
\* once drawn is never drawn again.  utc_now() reads a logical clock that every
\* call advances, so two calls never return the same timestamp.
EXTENDS Integers, Sequences, FiniteSets, TLC

\* ---------------------------------------------------------------- bounds
MaxNodes == 2
MaxVms == 2
MaxOps == 3
MaxClock == 7
MaxConns == 2
MaxSessions == 1
MaxMsgs == 2
MaxThreads == 3
MaxFrames == 2
MaxCalls == 2
MaxEnqueues == 6
MaxDeliveries == 2
MaxGens == 2
MaxOpens == 3
MaxPairCalls == 2

\* ------------------------------------------------------- program constants
\* AGENT_WS_OUTBOUND_MESSAGES keeps its newest 1000 once it passes 2000 entries,
\* a drain takes at most 200, a terminal queue holds 500: scaled to the bounds
OutboundCap == 2
OutboundKeep == 1
DrainMax == 2
TerminalQueueMax == 2
\* the same limits on a scale at which the list that is kept holds several messages
WideCap == 4
WideKeep == 2

\* fail_stale_vm_operations(stale_after_seconds=600), in clock ticks
StaleAfter == 2

Null == 0
\* last_metrics_json IS NULL: the column holds no metrics
NoMetrics == <<>>
NULL == "NULL"

NodeIds == 1..MaxNodes
VmIds == 1..MaxVms
OpIds == 1..MaxOps
PairCodes == {"K7Q2JM", "AAAAA1"}
Hostnames == {"h1", "h2"}

NODE_STATE_PENDING == "pending"
NODE_STATE_PAIRED == "paired"

\* the Store (sqlite tables of master/db.py) and the logical clock
VARIABLES nodes, node_vms, vm_operations, node_logs, log_seq, next_node, next_vm, next_op, next_token, clock
\* the last return value of a Store function and the last HTTP response
VARIABLES ret, resp
\* the Command Router's in-memory maps (master/main.py) and requests in flight
VARIABLES PENDING_AGENT_COMMANDS, to_enqueue, enq_hist, deq_hist

storeVars == <<nodes, node_vms, vm_operations, node_logs, log_seq, next_node, next_vm, next_op, next_token, clock>>

pendingVars == <<PENDING_AGENT_COMMANDS, to_enqueue, enq_hist, deq_hist>>

\* the Agent Session state of the Command Router (master/main.py): the registries,
\* each /ws/agent handler thread and each /ws/nodes/<id>/terminal handler thread
VARIABLES ACTIVE_AGENT_CONNECTIONS, AGENT_WS_OUTBOUND_MESSAGES, TERMINAL_SESSIONS, conn, term, next_conn, next_session, ws_enq_hist

routerVars == <<ACTIVE_AGENT_CONNECTIONS, AGENT_WS_OUTBOUND_MESSAGES, TERMINAL_SESSIONS, conn, term, next_conn, next_session, ws_enq_hist>>

\* one agent process (agent/main.py): the three in-progress events of execute_command
\* and the threads that run it (the command poller, the handler threads the
\* websocket streamer starts for command frames)
VARIABLES vm_command_in_progress, container_command_in_progress, terminal_command_in_progress, agent_threads

agentVars == <<vm_command_in_progress, container_command_in_progress, terminal_command_in_progress, agent_threads>>

\* the create_vm_request calls in flight: each call's position and arguments
VARIABLES create_calls, enqueue_calls
\* how many times the agent has delivered the result of each operation
VARIABLES delivered
\* a push log stream (_stream_node_logs_ws): its position, its since_id and what it has sent
VARIABLES log_stream
\* the agent process (agent/main.py main): the control loop, the persisted pairing
\* state, auth_failure_event, its worker threads and the token the master accepts
VARIABLES agent_process
\* the agent's TerminalSessionManager: _sessions, _vm_domain_to_session, the thread
\* that handles terminal events, the reader threads and the frames sent so far
VARIABLES terminal_manager
\* the pair_node calls in flight (request threads of POST /api/pair) and what each
\* returned last
VARIABLES pair_calls
procVars == <<agent_process, terminal_manager, pair_calls>>
auxVars == <<delivered, log_stream, procVars>>
callVars == <<create_calls, enqueue_calls, auxVars>>

vars == <<storeVars, ret, resp, pendingVars, routerVars, agentVars, callVars>>

\* ------------------------------------------------------------ helpers
Rows(table) == DOMAIN table

Insert(table, id, row) == table @@ (id :> row)

Remove(table, ids) == [k \in (DOMAIN table) \ ids |-> table[k]]

\* a return value: the function, the argument that names its subject, the tagged
\* outcome, the node it acted on and the payload
Ret(fn, arg, status, node, val) == [fn |-> fn, arg |-> arg, status |-> status, node |-> node, val |-> val]

\* utc_now(): the clock; a call whose value is stored advances it
utc_now == clock

\* _insert_node_log: AUTOINCREMENT id; the message is kept by its fixed text
insert_node_log(logs, seq, node_id, level, message, meta) == Append(logs, [id |-> seq + 1, node_id |-> node_id, level |-> level, message |-> message, meta |-> meta])

\* the meta column: the id it names (operation, command) and the text it carries
Meta(ref, text) == [ref |-> ref, text |-> text]

\* normalize_pair_code: strip().upper()
normalize_pair_code(value) == CASE value = "k7q2jm" -> "K7Q2JM" [] value = " AAAAA1" -> "AAAAA1" [] OTHER -> value

\* is_valid_pair_code: ^[A-Z0-9]{6}$ on the normalised value
is_valid_pair_code(value) == normalize_pair_code(value) \in PairCodes

\* a faulty generator: the random code is returned without the look-up
generate_pair_code_unchecked(code) == code \in PairCodes

\* _generate_unique_pair_code: a random code that no row of nodes holds
generate_unique_pair_code(code) == \A n \in Rows(nodes) : nodes[n].pair_code # code

\* _generate_unique_pair_token: a fresh token that no row of nodes holds
generate_unique_pair_token(token) == token = next_token /\ \A n \in Rows(nodes) : nodes[n].pair_token # token

\* ------------------------------------------------------------ node lifecycle
\* db.create_node
create_node(code) ==
    /\ next_node <= MaxNodes
    /\ clock <= MaxClock
    /\ generate_unique_pair_code(code)
    /\ nodes' = Insert(nodes, next_node, [pair_code |-> code, state |-> NODE_STATE_PENDING, pair_token |-> Null, created_at |-> utc_now, paired_at |-> Null, last_heartbeat_at |-> Null, agent_hostname |-> NULL, capabilities |-> NULL, last_metrics |-> NoMetrics])
    /\ node_logs' = insert_node_log(node_logs, log_seq, next_node, "info", "Node created and waiting for pairing", Meta(Null, code))
    /\ log_seq' = log_seq + 1
    /\ next_node' = next_node + 1
    /\ clock' = clock + 1
    /\ ret' = Ret("create_node", code, "ok", next_node, Null)
    /\ UNCHANGED <<node_vms, vm_operations, next_vm, next_op, next_token>>

\* db.pair_node: the UPDATE of a pending row
pair_node_update(n, hostname, token) ==
    /\ clock <= MaxClock
    /\ generate_unique_pair_token(token)
    /\ nodes' = [nodes EXCEPT ![n] = [@ EXCEPT !.state = NODE_STATE_PAIRED, !.pair_token = token, !.paired_at = utc_now, !.agent_hostname = hostname]]
    /\ node_logs' = insert_node_log(node_logs, log_seq, n, "info", "Node paired with agent", Meta(Null, hostname))
    /\ log_seq' = log_seq + 1
    /\ next_token' = next_token + 1
    /\ clock' = clock + 1
    /\ ret' = Ret("pair_node", nodes[n].pair_code, "paired", n, token)
    /\ UNCHANGED <<node_vms, vm_operations, next_node, next_vm, next_op>>

\* a faulty test: a row is paired whatever its state
pair_node_any_state(row) == row.state \in {NODE_STATE_PENDING, NODE_STATE_PAIRED}

\* db.pair_node: may this row be paired?
pair_node_pending(row) == row.state = NODE_STATE_PENDING

\* db.pair_node
pair_node(pair_code, hostname) ==
    LET normalized_code == normalize_pair_code(pair_code)
        hit == {n \in Rows(nodes) : nodes[n].pair_code = normalized_code}
    IN  IF ~is_valid_pair_code(normalized_code)
        THEN ret' = Ret("pair_node", normalized_code, "invalid_code", Null, Null) /\ UNCHANGED storeVars
        ELSE IF hit = {}
        THEN ret' = Ret("pair_node", normalized_code, "not_found", Null, Null) /\ UNCHANGED storeVars
        ELSE LET n == CHOOSE n \in hit : TRUE
             IN  IF ~pair_node_pending(nodes[n])
                 THEN ret' = Ret("pair_node", normalized_code, "already_paired", n, Null) /\ UNCHANGED storeVars
                 ELSE pair_node_update(n, hostname, next_token)

\* db.record_heartbeat: the UPDATE (COALESCE keeps a column when the payload has none)
record_heartbeat_update(n, vm_capability) ==
    /\ clock <= MaxClock
    /\ nodes' = [nodes EXCEPT ![n] = [@ EXCEPT !.last_heartbeat_at = utc_now, !.capabilities = IF vm_capability = NULL THEN @ ELSE vm_capability]]
    /\ node_logs' = insert_node_log(node_logs, log_seq, n, "info", "Heartbeat", Meta(Null, NULL))
    /\ log_seq' = log_seq + 1
    /\ clock' = clock + 1
    /\ ret' = Ret("record_heartbeat", nodes[n].pair_token, "ok", n, Null)
    /\ UNCHANGED <<node_vms, vm_operations, next_node, next_vm, next_op, next_token>>

\* a faulty heartbeat: the token is not looked up
record_heartbeat_unchecked(pair_token, node_id, vm_capability) ==
    IF node_id \in Rows(nodes)
    THEN record_heartbeat_update(node_id, vm_capability)
    ELSE ret' = Ret("record_heartbeat", pair_token, "ok", Null, Null) /\ UNCHANGED storeVars

\* a faulty heartbeat: the node of the token is updated whatever node_id says
record_heartbeat_any_node(pair_token, node_id, vm_capability) ==
    LET hit == {n \in Rows(nodes) : nodes[n].pair_token = pair_token}
    IN  IF pair_token = Null
        THEN ret' = Ret("record_heartbeat", pair_token, "missing_token", Null, Null) /\ UNCHANGED storeVars
        ELSE IF hit = {}
        THEN ret' = Ret("record_heartbeat", pair_token, "invalid_token", Null, Null) /\ UNCHANGED storeVars
        ELSE record_heartbeat_update(CHOOSE n \in hit : TRUE, vm_capability)

\* db.record_heartbeat
record_heartbeat(pair_token, node_id, vm_capability) ==
    LET hit == {n \in Rows(nodes) : nodes[n].pair_token = pair_token}
    IN  IF pair_token = Null
        THEN ret' = Ret("record_heartbeat", pair_token, "missing_token", Null, Null) /\ UNCHANGED storeVars
        ELSE IF hit = {}
        THEN ret' = Ret("record_heartbeat", pair_token, "invalid_token", Null, Null) /\ UNCHANGED storeVars
        ELSE LET n == CHOOSE n \in hit : TRUE
             IN  IF n # node_id
                 THEN ret' = Ret("record_heartbeat", pair_token, "node_mismatch", Null, Null) /\ UNCHANGED storeVars
                 ELSE record_heartbeat_update(n, vm_capability)

\* ---- runtime metrics.  A number of the usage payload is a record: kind "none"
\* (absent, or not a number), "num", "nan", "inf" or "-inf"; a "num" holds its value
\* n in thousandths and, for a value that is a decimal tie of round(x, 2), whether
\* the binary float lies above the tie (up).  A stored percent is in hundredths.
PercentFields == {"cpu_percent", "memory_percent", "storage_percent"}
ByteFields == {"memory_used_bytes", "memory_total_bytes", "storage_used_bytes", "storage_total_bytes"}

\* 100.0 in hundredths, 1 in thousandths
Hundred == 10000
Thousandths == 1000

\* round(x, 2) of a float given in thousandths, in hundredths
round_2(value) ==
    LET magnitude == IF value.n < 0 THEN 0 - value.n ELSE value.n
        q == magnitude \div 10
        r == magnitude % 10
        rounded == IF r > 5 \/ (r = 5 /\ value.up) THEN q + 1 ELSE q
    IN  IF value.n < 0 THEN 0 - rounded ELSE rounded

\* a faulty clamp: max(0.0, ...) is missing
clamp_percent_no_floor(x) == IF x > Hundred THEN Hundred ELSE x

\* max(0.0, min(100.0, x))
clamp_percent(x) == IF x > Hundred THEN Hundred ELSE IF x < 0 THEN 0 ELSE x

\* max(0.0, min(100.0, round(_as_float(v), 2))): min(100.0, nan) is 100.0
normalize_percent(value) ==
    CASE value.kind = "num" -> clamp_percent(round_2(value))
      [] value.kind = "-inf" -> 0
      [] OTHER -> Hundred

\* max(0, _as_int(v)): int() of a float truncates toward zero
normalize_bytes(value) ==
    LET truncated == IF value.n < 0 THEN 0 - ((0 - value.n) \div Thousandths) ELSE value.n \div Thousandths
    IN  IF truncated < 0 THEN 0 ELSE truncated

\* _as_int raises on a float that is nan (ValueError) or infinite (OverflowError)
as_int_raises(usage) ==
    IF \E f \in ByteFields : usage[f].kind = "nan" THEN "ValueError"
    ELSE IF \E f \in ByteFields : usage[f].kind \in {"inf", "-inf"} THEN "OverflowError"
    ELSE "ok"

\* _normalize_runtime_metrics: the dict of the fields that hold a number
normalize_runtime_metrics(usage) ==
    [f \in {g \in PercentFields \cup ByteFields : usage[g].kind # "none"} |->
        IF f \in PercentFields THEN normalize_percent(usage[f]) ELSE normalize_bytes(usage[f])]

\* db.record_heartbeat with a payload that carries extra.usage
record_heartbeat_usage(pair_token, node_id, usage) ==
    LET hit == {n \in Rows(nodes) : nodes[n].pair_token = pair_token}
        metrics == normalize_runtime_metrics(usage)
    IN  IF pair_token = Null
        THEN ret' = Ret("record_heartbeat", pair_token, "missing_token", Null, usage) /\ UNCHANGED storeVars
        ELSE IF hit = {}
        THEN ret' = Ret("record_heartbeat", pair_token, "invalid_token", Null, usage) /\ UNCHANGED storeVars
        ELSE IF (CHOOSE n \in hit : TRUE) # node_id
        THEN ret' = Ret("record_heartbeat", pair_token, "node_mismatch", Null, usage) /\ UNCHANGED storeVars
        ELSE IF as_int_raises(usage) # "ok"
        THEN ret' = Ret("record_heartbeat", pair_token, as_int_raises(usage), Null, usage) /\ UNCHANGED storeVars
        ELSE /\ clock <= MaxClock
             /\ nodes' = [nodes EXCEPT ![node_id] = [@ EXCEPT !.last_heartbeat_at = utc_now, !.last_metrics = IF metrics = NoMetrics THEN @ ELSE metrics]]
             /\ node_logs' = insert_node_log(node_logs, log_seq, node_id, "info", "Heartbeat", Meta(Null, NULL))
             /\ log_seq' = log_seq + 1
             /\ clock' = clock + 1
             /\ ret' = Ret("record_heartbeat", pair_token, "ok", node_id, usage)
             /\ UNCHANGED <<node_vms, vm_operations, next_node, next_vm, next_op, next_token>>

\* db.delete_node: ON DELETE CASCADE removes the node's logs, VMs and operations
delete_node(node_id) ==
    IF node_id \notin Rows(nodes)
    THEN ret' = Ret("delete_node", node_id, "not_found", Null, Null) /\ UNCHANGED storeVars
    ELSE /\ nodes' = Remove(nodes, {node_id})
         /\ node_logs' = SelectSeq(node_logs, LAMBDA e : e.node_id # node_id)
         /\ node_vms' = Remove(node_vms, {v \in Rows(node_vms) : node_vms[v].node_id = node_id})
         /\ vm_operations' = Remove(vm_operations, {o \in Rows(vm_operations) : vm_operations[o].node_id = node_id})
         /\ ret' = Ret("delete_node", node_id, "ok", node_id, Null)
         /\ UNCHANGED <<log_seq, next_node, next_vm, next_op, next_token, clock>>

\* ------------------------------------------------------------ VMs and operations
VmNames == {"db-1", "web-1"}
VmImages == {"ubuntu-24-04", "debian-12"}
GuestPassword == "p"
REDACTED == "***redacted***"
RestartReason == "Master restarted before operation dispatch"
StaleReason == "Timed out waiting for agent connection"
Terminal == {"succeeded", "failed"}

\* a faulty capability test: every node counts as ready
capability_unchecked(node_row) == TRUE

\* _node_vm_capability_ready: capabilities.vm.ready is True
node_vm_capability_ready(node_row) == node_row.capabilities = "ready"

\* the ids of a set of rows as a sequence in ascending (rowid) order
RECURSIVE Ascending(_)
Ascending(ids) == IF ids = {} THEN <<>> ELSE LET m == CHOOSE x \in ids : \A y \in ids : x <= y IN <<m>> \o Ascending(ids \ {m})

\* one log row per failed operation, in row order (the loops of fail_unfinished / fail_stale)
RECURSIVE insert_failure_logs(_, _, _, _)
insert_failure_logs(logs, seq, ops, message) == IF ops = <<>> THEN logs ELSE insert_failure_logs(insert_node_log(logs, seq, vm_operations[Head(ops)].node_id, "error", message, Meta(Head(ops), NULL)), seq + 1, Tail(ops), message)

\* db.create_vm_request: the three INSERTs and the command that is returned
create_vm_insert(node_id, payload) ==
    /\ next_vm <= MaxVms
    /\ next_op <= MaxOps
    /\ clock <= MaxClock
    /\ node_vms' = Insert(node_vms, next_vm, [node_id |-> node_id, name |-> payload.name, state |-> "creating", last_error |-> NULL, created_at |-> utc_now, updated_at |-> utc_now])
    /\ vm_operations' = Insert(vm_operations, next_op, [node_id |-> node_id, vm_id |-> next_vm, operation_type |-> "create", status |-> "queued", request |-> REDACTED, result |-> NULL, error |-> NULL, created_at |-> utc_now, started_at |-> Null, ended_at |-> Null])
    /\ node_logs' = insert_node_log(node_logs, log_seq, node_id, "info", "VM create queued", Meta(next_op, NULL))
    /\ log_seq' = log_seq + 1
    /\ next_vm' = next_vm + 1
    /\ next_op' = next_op + 1
    /\ clock' = clock + 1
    /\ ret' = Ret("create_vm_request", node_id, "ok", node_id, [command_type |-> "vm_create", command_id |-> next_op, operation_id |-> next_op, vm_id |-> next_vm, password |-> payload.password])
    /\ UNCHANGED <<nodes, next_node, next_token>>

\* db.create_vm_request: the status a call is rejected with after its checks and
\* SELECTs, ok when it goes on to insert
create_vm_rejection(node_id, payload) ==
    IF ~payload.valid THEN "invalid_payload"
    ELSE IF node_id \notin Rows(nodes) THEN "not_found"
    ELSE IF nodes[node_id].state # NODE_STATE_PAIRED THEN "node_not_paired"
    ELSE IF ~node_vm_capability_ready(nodes[node_id]) THEN "capability_not_ready"
    ELSE IF payload.image_id \notin VmImages THEN "image_not_found"
    ELSE IF \E v \in Rows(node_vms) : node_vms[v].node_id = node_id /\ node_vms[v].name = payload.name THEN "conflict"
    ELSE "ok"

\* db.create_vm_request, called with no other Store call in between
create_vm_request(node_id, payload) ==
    IF create_vm_rejection(node_id, payload) # "ok"
    THEN ret' = Ret("create_vm_request", node_id, create_vm_rejection(node_id, payload), Null, Null) /\ UNCHANGED storeVars
    ELSE create_vm_insert(node_id, payload)

\* faulty preconditions: a start is never rejected for the state it finds
queue_vm_action_rejects_no_start(action, current_state) ==
    \/ action = "stop" /\ current_state = "stopped"
    \/ action = "reboot" /\ current_state \notin {"running", "unknown"}
    \/ current_state \in {"creating", "deleting"}

\* db.queue_vm_action: the state-machine preconditions
queue_vm_action_rejects(action, current_state) ==
    \/ action = "start" /\ current_state = "running"
    \/ action = "stop" /\ current_state = "stopped"
    \/ action = "reboot" /\ current_state \notin {"running", "unknown"}
    \/ current_state \in {"creating", "deleting"}

\* db.queue_vm_action: the speculative next state
queue_vm_action_next_state(action) == CASE action = "reboot" -> "rebooting" [] action = "delete" -> "deleting" [] OTHER -> "unknown"

\* db.queue_vm_action: the UPDATE, the INSERT and the command that is returned
queue_vm_action_insert(node_id, vm_id, action) ==
    /\ next_op <= MaxOps
    /\ clock <= MaxClock
    /\ node_vms' = [node_vms EXCEPT ![vm_id] = [@ EXCEPT !.state = queue_vm_action_next_state(action), !.last_error = NULL, !.updated_at = utc_now]]
    /\ vm_operations' = Insert(vm_operations, next_op, [node_id |-> node_id, vm_id |-> vm_id, operation_type |-> action, status |-> "queued", request |-> action, result |-> NULL, error |-> NULL, created_at |-> utc_now, started_at |-> Null, ended_at |-> Null])
    /\ node_logs' = insert_node_log(node_logs, log_seq, node_id, "info", "VM action queued", Meta(next_op, NULL))
    /\ log_seq' = log_seq + 1
    /\ next_op' = next_op + 1
    /\ clock' = clock + 1
    /\ ret' = Ret("queue_vm_action", vm_id, "ok", node_id, [command_type |-> "vm_" \o action, command_id |-> next_op, operation_id |-> next_op, vm_id |-> vm_id, password |-> NULL])
    /\ UNCHANGED <<nodes, next_node, next_vm, next_token>>

\* db.queue_vm_action
queue_vm_action(node_id, vm_id, action) ==
    IF action \notin {"start", "stop", "reboot", "delete"}
    THEN ret' = Ret("queue_vm_action", vm_id, "invalid_action", Null, Null) /\ UNCHANGED storeVars
    ELSE IF node_id \notin Rows(nodes)
    THEN ret' = Ret("queue_vm_action", vm_id, "not_found", Null, Null) /\ UNCHANGED storeVars
    ELSE IF nodes[node_id].state # NODE_STATE_PAIRED
    THEN ret' = Ret("queue_vm_action", vm_id, "node_not_paired", Null, Null) /\ UNCHANGED storeVars
    ELSE IF ~node_vm_capability_ready(nodes[node_id])
    THEN ret' = Ret("queue_vm_action", vm_id, "capability_not_ready", Null, Null) /\ UNCHANGED storeVars
    ELSE IF vm_id \notin Rows(node_vms) \/ node_vms[vm_id].node_id # node_id
    THEN ret' = Ret("queue_vm_action", vm_id, "vm_not_found", Null, Null) /\ UNCHANGED storeVars
    ELSE IF queue_vm_action_rejects(action, node_vms[vm_id].state)
    THEN ret' = Ret("queue_vm_action", vm_id, "invalid_state", Null, Null) /\ UNCHANGED storeVars
    ELSE queue_vm_action_insert(node_id, vm_id, action)

\* _derive_vm_state_from_power: substring tests on the lower-cased power state
derive_vm_state_from_power(power_state, fallback) ==
    IF power_state = NULL THEN fallback
    ELSE IF power_state \in {"running"} THEN "running"
    ELSE IF power_state \in {"shut off", "stopped", "off"} THEN "stopped"
    ELSE fallback

\* the operations a sweep fails, given the statuses it selects
sweep_rows(statuses) == {o \in Rows(vm_operations) : vm_operations[o].status \in statuses}

\* the UPDATEs of fail_unfinished_vm_operations / fail_stale_vm_operations over the selected rows
fail_operations(fn, failed, reason, message) ==
    /\ vm_operations' = [o \in Rows(vm_operations) |-> IF o \in failed THEN [vm_operations[o] EXCEPT !.status = "failed", !.error = reason, !.ended_at = utc_now, !.started_at = IF @ = Null THEN utc_now ELSE @] ELSE vm_operations[o]]
    /\ node_vms' = [v \in Rows(node_vms) |-> IF \E o \in failed : vm_operations[o].vm_id = v THEN [node_vms[v] EXCEPT !.state = "error", !.last_error = reason, !.updated_at = utc_now] ELSE node_vms[v]]
    /\ node_logs' = insert_failure_logs(node_logs, log_seq, Ascending(failed), message)
    /\ log_seq' = log_seq + Cardinality(failed)
    /\ clock' = clock + 1
    /\ ret' = Ret(fn, Null, "ok", Null, Cardinality(failed))
    /\ UNCHANGED <<nodes, next_node, next_vm, next_op, next_token>>

\* a faulty startup sweep: it selects the queued operations only
fail_unfinished_queued_only(reason) ==
    /\ clock <= MaxClock
    /\ fail_operations("fail_unfinished_vm_operations", sweep_rows({"queued"}), reason, "VM operation failed after restart")

\* db.fail_unfinished_vm_operations
fail_unfinished_vm_operations(reason) ==
    /\ clock <= MaxClock
    /\ fail_operations("fail_unfinished_vm_operations", sweep_rows({"queued", "running"}), reason, "VM operation failed after restart")

\* db.fail_stale_vm_operations: queued rows created before the cutoff
fail_stale_vm_operations ==
    /\ clock <= MaxClock
    /\ fail_operations("fail_stale_vm_operations", {o \in sweep_rows({"queued"}) : vm_operations[o].created_at < utc_now - StaleAfter}, StaleReason, "VM operation timed out")

\* db.apply_vm_command_result: status == "running"
apply_running(node_id, operation_id, message) ==
    /\ vm_operations' = [vm_operations EXCEPT ![operation_id] = [@ EXCEPT !.status = "running", !.started_at = IF @ = Null THEN utc_now ELSE @]]
    /\ node_logs' = insert_node_log(node_logs, log_seq, node_id, "info", "VM operation running", Meta(operation_id, NULL))
    /\ log_seq' = log_seq + 1
    /\ clock' = clock + 1
    /\ ret' = Ret("apply_vm_command_result", operation_id, "ok", node_id, [status |-> "running", power_state |-> NULL])
    /\ UNCHANGED <<nodes, node_vms, next_node, next_vm, next_op, next_token>>

\* a faulty terminal UPDATE: started_at is left as it was (no COALESCE)
apply_final_row_no_coalesce(op_row, final_status, message, power_state) == [op_row EXCEPT !.status = final_status, !.ended_at = utc_now, !.error = IF final_status = "failed" THEN message ELSE NULL, !.result = power_state]

\* db.apply_vm_command_result: the operation row after the terminal UPDATE
apply_final_row(op_row, final_status, message, power_state) == [op_row EXCEPT !.status = final_status, !.started_at = IF @ = Null THEN utc_now ELSE @, !.ended_at = utc_now, !.error = IF final_status = "failed" THEN message ELSE NULL, !.result = power_state]

\* a faulty success branch: a succeeded stop leaves the VM unknown
apply_success_state_stop_unknown(op_type, power_state) ==
    IF op_type \in {"create", "start", "reboot"}
    THEN derive_vm_state_from_power(power_state, IF op_type # "create" THEN "running" ELSE "unknown")
    ELSE "unknown"

\* db.apply_vm_command_result: the VM state a success leaves (not for delete)
apply_success_state(op_type, power_state) ==
    IF op_type \in {"create", "start", "reboot"}
    THEN derive_vm_state_from_power(power_state, IF op_type # "create" THEN "running" ELSE "unknown")
    ELSE IF op_type = "stop" THEN "stopped" ELSE "unknown"

\* db.apply_vm_command_result: a terminal status.  DELETE FROM node_vms cascades to
\* the VM's operations; the closing SELECT then finds no row, _to_public_vm_operation(None)
\* raises TypeError and the transaction is rolled back.  The value returned records
\* the status and the power state the caller reported.
apply_final(node_id, operation_id, status, message, power_state) ==
    LET op_row == vm_operations[operation_id]
        vm_id == op_row.vm_id
        has_vm == vm_id # Null /\ vm_id \in Rows(node_vms)
        final_status == IF status = "succeeded" THEN "succeeded" ELSE "failed"
        reported == [status |-> status, power_state |-> power_state]
    IN  IF has_vm /\ final_status = "succeeded" /\ op_row.operation_type = "delete"
        THEN ret' = Ret("apply_vm_command_result", operation_id, "TypeError", node_id, reported) /\ UNCHANGED storeVars
        ELSE /\ vm_operations' = [vm_operations EXCEPT ![operation_id] = apply_final_row(op_row, final_status, message, power_state)]
             /\ node_vms' = IF ~has_vm THEN node_vms
                            ELSE IF final_status = "failed"
                            THEN [node_vms EXCEPT ![vm_id] = [@ EXCEPT !.state = "error", !.last_error = message, !.updated_at = utc_now]]
                            ELSE [node_vms EXCEPT ![vm_id] = [@ EXCEPT !.state = apply_success_state(op_row.operation_type, power_state), !.last_error = NULL, !.updated_at = utc_now]]
             /\ node_logs' = insert_node_log(node_logs, log_seq, node_id, IF final_status = "succeeded" THEN "info" ELSE "error", "VM operation " \o final_status, Meta(operation_id, NULL))
             /\ log_seq' = log_seq + 1
             /\ clock' = clock + 1
             /\ ret' = Ret("apply_vm_command_result", operation_id, "ok", node_id, reported)
             /\ UNCHANGED <<nodes, next_node, next_vm, next_op, next_token>>

\* a faulty look-up: the operation is found whatever node it belongs to
operation_of_any_node(node_id, operation_id) == operation_id \in Rows(vm_operations)

\* SELECT * FROM vm_operations WHERE id = ? AND node_id = ?
operation_of_node(node_id, operation_id) == operation_id \in Rows(vm_operations) /\ vm_operations[operation_id].node_id = node_id

\* db.apply_vm_command_result
apply_vm_command_result(node_id, operation_id, status, message, power_state) ==
    IF ~operation_of_node(node_id, operation_id)
    THEN ret' = Ret("apply_vm_command_result", operation_id, "not_found", Null, Null) /\ UNCHANGED storeVars
    ELSE /\ clock <= MaxClock
         /\ IF status = "running"
            THEN apply_running(node_id, operation_id, message)
            ELSE apply_final(node_id, operation_id, status, message, power_state)

\* db.is_valid_node_token
is_valid_node_token(node_id, pair_token) == pair_token # Null /\ node_id \in Rows(nodes) /\ nodes[node_id].pair_token = pair_token

\* db.append_node_log: the log table after the call (unchanged when the node is missing)
append_node_log(logs, seq, node_id, level, message, meta) == IF node_id \in Rows(nodes) THEN insert_node_log(logs, seq, node_id, level, message, meta) ELSE logs

\* list_node_logs: the greatest limit a query is given (500 in the code)
LogsLimitMax == 3

\* since_id is None: the query parameter is absent
NoSince == -1

\* ORDER BY id ASC
RECURSIVE order_by_id_asc(_)
order_by_id_asc(rows) == IF rows = {} THEN <<>> ELSE LET first == CHOOSE r \in rows : \A q \in rows : r.id <= q.id IN <<first>> \o order_by_id_asc(rows \ {first})

\* ORDER BY id DESC
RECURSIVE order_by_id_desc(_)
order_by_id_desc(rows) == IF rows = {} THEN <<>> ELSE LET first == CHOOSE r \in rows : \A q \in rows : r.id >= q.id IN <<first>> \o order_by_id_desc(rows \ {first})

\* LIMIT n
limit_rows(rows, n) == IF Len(rows) <= n THEN rows ELSE SubSeq(rows, 1, n)

\* list(reversed(rows))
reversed(rows) == [i \in 1..Len(rows) |-> rows[Len(rows) + 1 - i]]

\* max(1, min(limit, 500))
clean_limit(limit) == IF limit > LogsLimitMax THEN LogsLimitMax ELSE IF limit < 1 THEN 1 ELSE limit

\* a faulty query: the newest rows are returned whether or not since_id is given
list_node_logs_latest(logs, node_id, limit, since_id) ==
    reversed(limit_rows(order_by_id_desc({logs[i] : i \in {j \in DOMAIN logs : logs[j].node_id = node_id /\ logs[j].id > since_id}}), clean_limit(limit)))

\* db.list_node_logs: the rows returned for an existing node
list_node_logs(logs, node_id, limit, since_id) ==
    IF since_id # NoSince
    THEN limit_rows(order_by_id_asc({logs[i] : i \in {j \in DOMAIN logs : logs[j].node_id = node_id /\ logs[j].id > since_id}}), clean_limit(limit))
    ELSE reversed(limit_rows(order_by_id_desc({logs[i] : i \in {j \in DOMAIN logs : logs[j].node_id = node_id}}), clean_limit(limit)))

\* ------------------------------------------------------------ push log stream
NoStream == [pc |-> "none", node_id |-> Null, limit |-> 0, since_id |-> NoSince, sent |-> <<>>]

\* the ids of a list of log rows
RECURSIVE ItemIds(_)
ItemIds(items) == IF items = <<>> THEN <<>> ELSE <<Head(items).id>> \o ItemIds(Tail(items))

\* a message of the stream: snapshot and append carry the ids of their items
StreamMessage(type, items, next_since_id) == [type |-> type, items |-> ItemIds(items), next_since_id |-> next_since_id]

\* a faulty poll: since_id is left where the snapshot put it
stream_since_kept(since_id, items) == since_id

\* since_id = items[-1]["id"]
stream_since(since_id, items) == items[Len(items)].id

\* _stream_node_logs_ws up to the snapshot: node_not_found for a missing node
stream_open(node_id, limit) ==
    /\ log_stream.pc = "none"
    /\ IF node_id \notin Rows(nodes)
       THEN log_stream' = [log_stream EXCEPT !.pc = "closed", !.node_id = node_id, !.limit = limit, !.sent = <<StreamMessage("error", <<>>, NoSince)>>]
       ELSE LET items == list_node_logs(node_logs, node_id, limit, NoSince)
                since_id == IF items # <<>> THEN stream_since(NoSince, items) ELSE NoSince
            IN  log_stream' = [pc |-> "open", node_id |-> node_id, limit |-> limit, since_id |-> since_id, sent |-> <<StreamMessage("snapshot", items, since_id)>>]
    /\ UNCHANGED <<storeVars, ret, resp, pendingVars, routerVars, agentVars, create_calls, enqueue_calls, delivered, procVars>>

\* one turn of the loop after sleep(1): the query with since_id, and the append when
\* it returned rows; node_not_found ends the stream
stream_poll ==
    /\ log_stream.pc = "open"
    /\ IF log_stream.node_id \notin Rows(nodes)
       THEN log_stream' = [log_stream EXCEPT !.pc = "closed", !.sent = Append(@, StreamMessage("error", <<>>, NoSince))]
       ELSE LET delta_items == list_node_logs(node_logs, log_stream.node_id, log_stream.limit, log_stream.since_id)
            IN  IF delta_items = <<>>
                THEN UNCHANGED log_stream
                ELSE log_stream' = [log_stream EXCEPT !.since_id = stream_since(@, delta_items), !.sent = Append(@, StreamMessage("append", delta_items, stream_since(log_stream.since_id, delta_items)))]
    /\ UNCHANGED <<storeVars, ret, resp, pendingVars, routerVars, agentVars, create_calls, enqueue_calls, delivered, procVars>>

\* the client goes away: ws.send raises and the handler returns
stream_closed ==
    /\ log_stream.pc = "open"
    /\ log_stream' = [log_stream EXCEPT !.pc = "closed"]
    /\ UNCHANGED <<storeVars, ret, resp, pendingVars, routerVars, agentVars, create_calls, enqueue_calls, delivered, procVars>>

\* ------------------------------------------------------------ Command Router: pending
\* str.lower() on the host names of the model
Lower(s) == CASE s = "H1" -> "h1" [] s = "H2" -> "h2" [] OTHER -> s

\* a faulty enqueue: the command is put at the front of the list
enqueue_agent_command_front(pending, node_id, command) == IF node_id \in DOMAIN pending THEN [pending EXCEPT ![node_id] = <<command>> \o @] ELSE pending @@ (node_id :> <<command>>)

\* _enqueue_agent_command
enqueue_agent_command(pending, node_id, command) == IF node_id \in DOMAIN pending THEN [pending EXCEPT ![node_id] = Append(@, command)] ELSE Insert(pending, node_id, <<command>>)

\* _dequeue_agent_command: the map after the pop (the entry is removed when it empties)
dequeue_agent_command(pending, node_id) == IF node_id \notin DOMAIN pending THEN pending ELSE IF Len(pending[node_id]) = 1 THEN Remove(pending, {node_id}) ELSE [pending EXCEPT ![node_id] = Tail(@)]

\* a faulty check: the X-Agent-Hostname header is not compared
validate_agent_node_auth_no_hostname(node_id, token, supplied_hostname) ==
    IF token = Null THEN 401
    ELSE IF ~is_valid_node_token(node_id, token) THEN 403
    ELSE IF node_id \notin Rows(nodes) THEN 404
    ELSE 0

\* _validate_agent_node_auth: 0 when the request may proceed, else the HTTP status
validate_agent_node_auth(node_id, token, supplied_hostname) ==
    IF token = Null THEN 401
    ELSE IF ~is_valid_node_token(node_id, token) THEN 403
    ELSE IF node_id \notin Rows(nodes) THEN 404
    ELSE IF nodes[node_id].agent_hostname # NULL /\ supplied_hostname # "" /\ Lower(nodes[node_id].agent_hostname) # Lower(supplied_hostname) THEN 403
    ELSE 0

Resp(route, code) == [route |-> route, code |-> code]

\* ------------------------------------------------------------ Command Router: agent sessions
ConnIds == 1..MaxConns
SessionIds == 1..MaxSessions

\* a websocket frame; absent keys are Null / NULL
Frame(type, session_id, data, error) == [type |-> type, session_id |-> session_id, data |-> data, error |-> error]

ErrorFrame(error) == Frame("error", Null, Null, error)

\* the frame types that reach an agent through AGENT_WS_OUTBOUND_MESSAGES
OutboundTypes == {"terminal_open", "terminal_input", "terminal_resize", "terminal_close"}

\* dict.get(key) with None as Null
Get(map, key) == IF key \in DOMAIN map THEN map[key] ELSE Null

\* dict.get(key) of a dict of lists, the missing list read as empty
GetList(map, key) == IF key \in DOMAIN map THEN map[key] ELSE <<>>

\* dict[key] = value
Put(map, key, value) == IF key \in DOMAIN map THEN [map EXCEPT ![key] = value] ELSE Insert(map, key, value)

\* a faulty activate: an entry that exists is kept (setdefault)
activate_keep_existing(active, node_id, connection_id) == IF node_id \in DOMAIN active THEN active ELSE active @@ (node_id :> connection_id)

\* _activate_agent_connection: the registry after the call (the return value is Get before it)
activate_agent_connection(active, node_id, connection_id) == Put(active, node_id, connection_id)

\* a faulty test: every connection is taken for the current one
is_current_always(node_id, connection_id) == connection_id \in ConnIds

\* _is_current_agent_connection
is_current_agent_connection(node_id, connection_id) == Get(ACTIVE_AGENT_CONNECTIONS, node_id) = connection_id

\* a faulty deactivation: the entry of the node is popped whoever holds it
deactivate_agent_connection_any(active, node_id, connection_id) == Remove(active, {node_id})

\* _deactivate_agent_connection: the registry after the call (the return value is is_current before it)
deactivate_agent_connection(active, node_id, connection_id) == IF Get(active, node_id) # connection_id THEN active ELSE Remove(active, {node_id})

\* _is_agent_connected
is_agent_connected(node_id) == node_id \in DOMAIN ACTIVE_AGENT_CONNECTIONS

\* messages[-n:]
LastN(messages, n) == SubSeq(messages, Len(messages) - n + 1, Len(messages))

\* a faulty enqueue: the message is put at the front of the list
enqueue_agent_ws_message_front(outbound, node_id, payload) == Put(outbound, node_id, LET messages == <<payload>> \o GetList(outbound, node_id) IN IF Len(messages) > OutboundCap THEN LastN(messages, OutboundKeep) ELSE messages)

\* a faulty trim: past the cap the oldest messages are kept
append_capped_keep_oldest(messages, payload, cap, keep) ==
    LET appended == Append(messages, payload)
    IN  IF Len(appended) > cap THEN SubSeq(appended, 1, keep) ELSE appended

\* messages.append(payload); if len(messages) > cap: del messages[:-keep]
append_capped(messages, payload, cap, keep) ==
    LET appended == Append(messages, payload)
    IN  IF Len(appended) > cap THEN LastN(appended, keep) ELSE appended

\* _enqueue_agent_ws_message: append, and past the cap keep the newest OutboundKeep
enqueue_agent_ws_message(outbound, node_id, payload) == Put(outbound, node_id, append_capped(GetList(outbound, node_id), payload, OutboundCap, OutboundKeep))

\* _drain_agent_ws_messages: how many items a call takes
drain_take(messages, max_items) == IF max_items < Len(messages) THEN (IF max_items < 1 THEN 1 ELSE max_items) ELSE Len(messages)

\* _drain_agent_ws_messages: the chunk that is returned
drain_chunk(outbound, node_id, max_items) == LET messages == GetList(outbound, node_id) IN SubSeq(messages, 1, drain_take(messages, max_items))

\* _drain_agent_ws_messages: the map after the call (the entry is popped when it empties)
drain_agent_ws_messages(outbound, node_id, max_items) ==
    LET messages == GetList(outbound, node_id)
        take == drain_take(messages, max_items)
    IN  IF messages = <<>> THEN outbound
        ELSE IF take = Len(messages) THEN Remove(outbound, {node_id})
        ELSE [outbound EXCEPT ![node_id] = SubSeq(messages, take + 1, Len(messages))]

\* _clear_agent_ws_messages
clear_agent_ws_messages(outbound, node_id) == Remove(outbound, {node_id})

\* queue.Queue(maxsize).put_nowait, and on queue.Full get_nowait then put_nowait
put_drop_oldest(queue, payload) == IF Len(queue) < TerminalQueueMax THEN Append(queue, payload) ELSE Append(Tail(queue), payload)

\* _enqueue_terminal_session_event: the sessions after the call (False for an unknown session)
enqueue_terminal_session_event(sessions, session_id, payload) == IF session_id \notin DOMAIN sessions THEN sessions ELSE [sessions EXCEPT ![session_id].queue = put_drop_oldest(@, payload)]

\* a faulty close: only the sessions with nothing waiting are told
close_terminal_sessions_idle_only(sessions, node_id, reason) == [s \in DOMAIN sessions |-> IF sessions[s].node_id = node_id /\ sessions[s].queue = <<>> THEN [sessions[s] EXCEPT !.queue = Append(@, Frame("terminal_error", s, Null, reason))] ELSE sessions[s]]

\* _close_terminal_sessions_for_node: a terminal_error on the queue of every session of the node
close_terminal_sessions_for_node(sessions, node_id, reason) == [s \in DOMAIN sessions |-> IF sessions[s].node_id = node_id THEN [sessions[s] EXCEPT !.queue = put_drop_oldest(@, Frame("terminal_error", s, Null, reason))] ELSE sessions[s]]

\* a /ws/agent handler that has not been started
NoConn == [pc |-> "none", node_id |-> Null, pair_token |-> Null, outbound_messages |-> <<>>, sent |-> <<>>, previous_connection_id |-> Null, broken |-> FALSE, received |-> 0]

\* a terminal handler that has not been started
NoTerm == [pc |-> "none", node_id |-> Null, ui_frames |-> 0]

\* ------------------------------------------------------------ HTTP API
\* POST /api/nodes
post_node(code) ==
    /\ create_node(code)
    /\ resp' = Resp("post_node", 201)
    /\ UNCHANGED <<pendingVars, routerVars, agentVars, callVars>>

\* POST /api/pair
post_pair(pair_code, hostname) ==
    /\ pair_node(pair_code, hostname)
    /\ resp' = Resp("post_pair", CASE ret'.status = "invalid_code" -> 400 [] ret'.status = "not_found" -> 404 [] ret'.status = "already_paired" -> 409 [] OTHER -> 200)
    /\ UNCHANGED <<pendingVars, routerVars, agentVars, callVars>>

\* POST /api/heartbeat
post_heartbeat(pair_token, node_id, vm_capability) ==
    /\ record_heartbeat(pair_token, node_id, vm_capability)
    /\ resp' = Resp("post_heartbeat", CASE ret'.status \in {"missing_token", "invalid_token"} -> 401 [] ret'.status \in {"node_mismatch", "hostname_mismatch"} -> 403 [] OTHER -> 200)
    /\ UNCHANGED <<pendingVars, routerVars, agentVars, callVars>>

\* DELETE /api/nodes/<node_id>
delete_node_route(node_id) ==
    /\ delete_node(node_id)
    /\ resp' = Resp("delete_node_route", IF ret'.status = "ok" THEN 200 ELSE 404)
    /\ UNCHANGED <<pendingVars, routerVars, agentVars, callVars>>

\* the HTTP status post_node_vm answers with
post_node_vm_code(status) == CASE status \in {"not_found", "image_not_found"} -> 404 [] status \in {"node_not_paired", "capability_not_ready", "conflict"} -> 409 [] status = "invalid_payload" -> 400 [] OTHER -> 202

\* the HTTP status _queue_vm_action_route answers with
queue_vm_action_code(status) == CASE status \in {"not_found", "vm_not_found"} -> 404 [] status \in {"node_not_paired", "capability_not_ready", "invalid_state"} -> 409 [] status = "invalid_action" -> 400 [] OTHER -> 202

\* the enqueue of a route: PENDING_AGENT_COMMANDS and the order of completed enqueues
route_enqueue(node_id, command) ==
    /\ PENDING_AGENT_COMMANDS' = enqueue_agent_command(PENDING_AGENT_COMMANDS, node_id, command)
    /\ enq_hist' = [enq_hist EXCEPT ![node_id] = Append(@, command)]

\* POST /api/nodes/<node_id>/vms
post_node_vm(node_id, payload) ==
    /\ create_vm_request(node_id, payload)
    /\ resp' = Resp("post_node_vm", post_node_vm_code(ret'.status))
    /\ IF ret'.status = "ok" THEN route_enqueue(node_id, ret'.val) ELSE UNCHANGED <<PENDING_AGENT_COMMANDS, enq_hist>>
    /\ UNCHANGED <<to_enqueue, deq_hist, routerVars, agentVars, callVars>>

\* _queue_vm_action_route
queue_vm_action_route(node_id, vm_id, action) ==
    /\ queue_vm_action(node_id, vm_id, action)
    /\ resp' = Resp("queue_vm_action_route", queue_vm_action_code(ret'.status))
    /\ IF ret'.status = "ok" THEN route_enqueue(node_id, ret'.val) ELSE UNCHANGED <<PENDING_AGENT_COMMANDS, enq_hist>>
    /\ UNCHANGED <<to_enqueue, deq_hist, routerVars, agentVars, callVars>>

\* two request threads interleave: post_node_vm / _queue_vm_action_route up to the
\* return of the Store call, the command not yet enqueued
route_store_call(node_id, vm_id, action, payload) ==
    /\ IF action = "create" THEN create_vm_request(node_id, payload) ELSE queue_vm_action(node_id, vm_id, action)
    /\ resp' = resp
    /\ to_enqueue' = IF ret'.status = "ok" THEN to_enqueue \cup {[node_id |-> node_id, command |-> ret'.val]} ELSE to_enqueue
    /\ UNCHANGED <<PENDING_AGENT_COMMANDS, enq_hist, deq_hist, routerVars, agentVars, callVars>>

\* ... and the rest of the route: _enqueue_agent_command and the 202 response
route_enqueue_call(req) ==
    /\ req \in to_enqueue
    /\ route_enqueue(req.node_id, req.command)
    /\ to_enqueue' = to_enqueue \ {req}
    /\ resp' = Resp(IF req.command.command_type = "vm_create" THEN "post_node_vm" ELSE "queue_vm_action_route", 202)
    /\ UNCHANGED <<storeVars, ret, deq_hist, routerVars, agentVars, callVars>>

\* POST /api/nodes/<node_id>/commands/next: the request as the Master handles it
commands_next_request(node_id, token, supplied_hostname) ==
    LET auth_error == validate_agent_node_auth(node_id, token, supplied_hostname)
        queue == IF node_id \in DOMAIN PENDING_AGENT_COMMANDS THEN PENDING_AGENT_COMMANDS[node_id] ELSE <<>>
    IN  IF auth_error # 0
        THEN resp' = Resp("post_agent_next_command", auth_error) /\ UNCHANGED <<storeVars, ret, pendingVars, routerVars>>
        ELSE IF queue = <<>>
        THEN resp' = Resp("post_agent_next_command", 204) /\ UNCHANGED <<storeVars, ret, pendingVars, routerVars>>
        ELSE /\ PENDING_AGENT_COMMANDS' = dequeue_agent_command(PENDING_AGENT_COMMANDS, node_id)
             /\ deq_hist' = [deq_hist EXCEPT ![node_id] = Append(@, Head(queue))]
             /\ node_logs' = append_node_log(node_logs, log_seq, node_id, "info", "Dispatched agent command via polling", Meta(Head(queue).command_id, Head(queue).password))
             /\ log_seq' = log_seq + 1
             /\ resp' = Resp("post_agent_next_command", 200)
             /\ ret' = Ret("dequeue_agent_command", node_id, "ok", node_id, Head(queue))
             /\ UNCHANGED <<nodes, node_vms, vm_operations, next_node, next_vm, next_op, next_token, clock, to_enqueue, enq_hist, routerVars>>

\* POST /api/nodes/<node_id>/commands/next
post_agent_next_command(node_id, token, supplied_hostname) ==
    /\ commands_next_request(node_id, token, supplied_hostname)
    /\ UNCHANGED <<agentVars, callVars>>

\* _process_agent_command_result for a vm_* command type
process_agent_command_result(node_id, payload) == apply_vm_command_result(node_id, payload.operation_id, payload.status, payload.message, payload.power_state)

\* POST /api/nodes/<node_id>/commands/result: the request as the Master handles it
commands_result_request(node_id, token, supplied_hostname, payload) ==
    LET auth_error == validate_agent_node_auth(node_id, token, supplied_hostname)
    IN  IF auth_error # 0
        THEN resp' = Resp("post_agent_command_result", auth_error) /\ UNCHANGED <<storeVars, ret, pendingVars, routerVars>>
        ELSE /\ process_agent_command_result(node_id, payload)
             /\ resp' = Resp("post_agent_command_result", CASE ret'.status = "not_found" -> 404 [] ret'.status = "TypeError" -> 500 [] OTHER -> 200)
             /\ UNCHANGED <<pendingVars, routerVars>>

\* POST /api/nodes/<node_id>/commands/result
post_agent_command_result(node_id, token, supplied_hostname, payload) ==
    /\ commands_result_request(node_id, token, supplied_hostname, payload)
    /\ UNCHANGED <<agentVars, callVars>>

\* _process_agent_command_result for a command type that is neither vm_* nor
\* terminal_exec: the result is not matched against an operation, a log row of the
\* node records it and the answer is ok
process_agent_command_result_log(node_id, command_type, payload) ==
    /\ clock <= MaxClock
    /\ node_logs' = append_node_log(node_logs, log_seq, node_id, IF payload.status \in {"failed", "error"} THEN "error" ELSE IF payload.status = "busy" THEN "warning" ELSE "info", "Agent command result", Meta(payload.operation_id, command_type))
    /\ log_seq' = log_seq + Len(node_logs') - Len(node_logs)
    /\ clock' = clock + 1
    /\ ret' = Ret("process_agent_command_result", payload.operation_id, "ok", node_id, Null)
    /\ UNCHANGED <<nodes, node_vms, vm_operations, next_node, next_vm, next_op, next_token>>

\* POST /api/nodes/<node_id>/commands/result, the payload's command_type told apart
post_agent_command_result_typed(node_id, token, command_type, payload) ==
    IF command_type \in {"vm_create", "vm_start", "vm_stop", "vm_reboot", "vm_delete"}
    THEN post_agent_command_result(node_id, token, "", payload)
    ELSE /\ IF validate_agent_node_auth(node_id, token, "") # 0
            THEN resp' = Resp("post_agent_command_result", validate_agent_node_auth(node_id, token, "")) /\ UNCHANGED <<storeVars, ret>>
            ELSE process_agent_command_result_log(node_id, command_type, payload) /\ resp' = Resp("post_agent_command_result", 200)
         /\ UNCHANGED <<pendingVars, routerVars, agentVars, callVars>>

\* _resolve_logs_request (GET /api/nodes/<node_id>/logs): limit and since_id are the
\* parsed query parameters; the value returned is the query and the response body
get_node_logs(node_id, limit, since_id) ==
    LET status == IF node_id \in Rows(nodes) THEN "ok" ELSE "not_found"
        items == IF status = "ok" THEN list_node_logs(node_logs, node_id, limit, since_id) ELSE <<>>
        next_since_id == IF items # <<>> THEN items[Len(items)].id ELSE since_id
    IN  /\ ret' = Ret("list_node_logs", node_id, status, IF status = "ok" THEN node_id ELSE Null, [limit |-> limit, since_id |-> since_id, items |-> items, next_since_id |-> next_since_id])
        /\ resp' = Resp("get_node_logs", 200)
        /\ UNCHANGED <<storeVars, pendingVars, routerVars, agentVars, callVars>>

\* GET /api/nodes and GET /api/nodes/<node_id>/vms: the sweep before the listing
get_nodes ==
    /\ fail_stale_vm_operations
    /\ resp' = Resp("get_nodes", 200)
    /\ UNCHANGED <<pendingVars, routerVars, agentVars, callVars>>

\* module startup of master/main.py: a restart loses the in-memory maps and the
\* requests in flight, then fail_unfinished_vm_operations runs on the persisted Store
master_restart ==
    /\ fail_unfinished_vm_operations(RestartReason)
    /\ resp' = Resp("startup", 0)
    /\ PENDING_AGENT_COMMANDS' = <<>>
    /\ to_enqueue' = {}
    /\ enq_hist' = [n \in NodeIds |-> <<>>]
    /\ deq_hist' = [n \in NodeIds |-> <<>>]
    /\ ACTIVE_AGENT_CONNECTIONS' = <<>>
    /\ AGENT_WS_OUTBOUND_MESSAGES' = <<>>
    /\ TERMINAL_SESSIONS' = <<>>
    /\ conn' = [c \in ConnIds |-> NoConn]
    /\ term' = [s \in SessionIds |-> NoTerm]
    /\ next_conn' = 1
    /\ next_session' = 1
    /\ ws_enq_hist' = [n \in NodeIds |-> <<>>]
    /\ UNCHANGED <<agentVars, callVars>>

\* ------------------------------------------------------------ /ws/agent
\* ws.send(json.dumps(payload)) on the websocket of handler c
send_message(c, payload) == [conn EXCEPT ![c].sent = Append(@, payload)]

\* a new /ws/agent websocket: connection_id = uuid4()
ws_agent_connect ==
    /\ next_conn <= MaxConns
    /\ conn' = [conn EXCEPT ![next_conn].pc = "loop"]
    /\ next_conn' = next_conn + 1
    /\ UNCHANGED <<storeVars, ret, resp, pendingVars, agentVars, callVars, ACTIVE_AGENT_CONNECTIONS, AGENT_WS_OUTBOUND_MESSAGES, TERMINAL_SESSIONS, term, next_session, ws_enq_hist>>

\* top of the while loop: the is_current test of an authenticated handler
ws_agent_loop(c) ==
    /\ conn[c].pc = "loop"
    /\ conn' = IF conn[c].node_id # Null /\ ~is_current_agent_connection(conn[c].node_id, c)
               THEN [send_message(c, ErrorFrame("superseded_connection")) EXCEPT ![c].pc = "finally"]
               ELSE [conn EXCEPT ![c].pc = IF conn[c].node_id # Null THEN "drain" ELSE "receive"]
    /\ UNCHANGED <<storeVars, ret, resp, pendingVars, agentVars, callVars, ACTIVE_AGENT_CONNECTIONS, AGENT_WS_OUTBOUND_MESSAGES, TERMINAL_SESSIONS, term, next_conn, next_session, ws_enq_hist>>

\* outbound_messages = _drain_agent_ws_messages(node_id, max_items=200)
ws_agent_drain(c) ==
    /\ conn[c].pc = "drain"
    /\ AGENT_WS_OUTBOUND_MESSAGES' = drain_agent_ws_messages(AGENT_WS_OUTBOUND_MESSAGES, conn[c].node_id, DrainMax)
    /\ LET chunk == drain_chunk(AGENT_WS_OUTBOUND_MESSAGES, conn[c].node_id, DrainMax)
       IN  conn' = [conn EXCEPT ![c].outbound_messages = chunk, ![c].pc = IF chunk = <<>> THEN "receive" ELSE "send"]
    /\ UNCHANGED <<storeVars, ret, resp, pendingVars, agentVars, callVars, ACTIVE_AGENT_CONNECTIONS, TERMINAL_SESSIONS, term, next_conn, next_session, ws_enq_hist>>

\* for outbound in outbound_messages: send_message(outbound), one frame per step
ws_agent_send(c) ==
    /\ conn[c].pc = "send"
    /\ conn' = [send_message(c, Head(conn[c].outbound_messages)) EXCEPT ![c].outbound_messages = Tail(@), ![c].pc = IF Len(conn[c].outbound_messages) = 1 THEN "receive" ELSE "send"]
    /\ UNCHANGED <<storeVars, ret, resp, pendingVars, agentVars, callVars, ACTIVE_AGENT_CONNECTIONS, AGENT_WS_OUTBOUND_MESSAGES, TERMINAL_SESSIONS, term, next_conn, next_session, ws_enq_hist>>

\* ws.receive(timeout=0.1) returns nothing: continue
ws_agent_receive_timeout(c) ==
    /\ conn[c].pc = "receive"
    /\ conn' = [conn EXCEPT ![c].pc = "loop"]
    /\ UNCHANGED <<storeVars, ret, resp, pendingVars, agentVars, callVars, ACTIVE_AGENT_CONNECTIONS, AGENT_WS_OUTBOUND_MESSAGES, TERMINAL_SESSIONS, term, next_conn, next_session, ws_enq_hist>>

\* a faulty token test: the node is looked up, the token is not compared
auth_token_unchecked(node_id, pair_token) == pair_token # Null /\ node_id \in Rows(nodes)

\* the token test of the auth branch
auth_token_ok(node_id, pair_token) == is_valid_node_token(node_id, pair_token)

\* a frame arrives on a handler that is not authenticated.  A message that is not
\* JSON (type "invalid_json") or not an object (type "invalid_payload") is answered
\* with an error and the loop continues; subscribe_logs streams the log rows and
\* ends; another type than auth, an auth frame without a node id or token and an
\* auth frame whose token is not the node's are answered with an error and end
\* the loop; a matching auth frame activates the connection.
ws_agent_receive_auth(c, message) ==
    /\ conn[c].pc = "receive"
    /\ conn[c].node_id = Null
    /\ IF message.type \in {"invalid_json", "invalid_payload"}
       THEN conn[c].received < MaxFrames /\ conn' = [send_message(c, ErrorFrame(message.type)) EXCEPT ![c].pc = "loop", ![c].received = @ + 1] /\ UNCHANGED ACTIVE_AGENT_CONNECTIONS
       ELSE IF message.type = "subscribe_logs"
       THEN conn' = [send_message(c, IF message.node_id \in Rows(nodes) THEN Frame("snapshot", Null, Null, NULL) ELSE ErrorFrame(IF message.node_id = Null THEN "node_id is required" ELSE "node_not_found")) EXCEPT ![c].pc = "finally"] /\ UNCHANGED ACTIVE_AGENT_CONNECTIONS
       ELSE IF message.type # "auth"
       THEN conn' = [send_message(c, ErrorFrame("auth_required")) EXCEPT ![c].pc = "finally"] /\ UNCHANGED ACTIVE_AGENT_CONNECTIONS
       ELSE IF message.node_id = Null \/ message.pair_token = Null
       THEN conn' = [send_message(c, ErrorFrame("invalid_auth_payload")) EXCEPT ![c].pc = "finally"] /\ UNCHANGED ACTIVE_AGENT_CONNECTIONS
       ELSE IF ~auth_token_ok(message.node_id, message.pair_token)
       THEN conn' = [send_message(c, ErrorFrame("unauthorized")) EXCEPT ![c].pc = "finally"] /\ UNCHANGED ACTIVE_AGENT_CONNECTIONS
       ELSE /\ ACTIVE_AGENT_CONNECTIONS' = activate_agent_connection(ACTIVE_AGENT_CONNECTIONS, message.node_id, c)
            /\ conn' = [conn EXCEPT ![c].node_id = message.node_id, ![c].pair_token = message.pair_token, ![c].previous_connection_id = Get(ACTIVE_AGENT_CONNECTIONS, message.node_id), ![c].pc = "activated"]
    /\ UNCHANGED <<storeVars, ret, resp, pendingVars, agentVars, callVars, AGENT_WS_OUTBOUND_MESSAGES, TERMINAL_SESSIONS, term, next_conn, next_session, ws_enq_hist>>

\* the log rows the auth branch appends after _activate_agent_connection
auth_logs(c) ==
    LET n == conn[c].node_id
        previous == conn[c].previous_connection_id
        replaced == previous # Null /\ previous # c
        logs == IF replaced THEN append_node_log(node_logs, log_seq, n, "warning", "Agent websocket connection replaced an existing session", Meta(previous, ToString(c))) ELSE node_logs
    IN  append_node_log(logs, log_seq + Len(logs) - Len(node_logs), n, "info", "Agent websocket connected", Meta(c, NULL))

\* the rest of the auth branch: the log rows and auth_ok
ws_agent_authenticated(c) ==
    /\ conn[c].pc = "activated"
    /\ node_logs' = auth_logs(c)
    /\ log_seq' = log_seq + Len(node_logs') - Len(node_logs)
    /\ conn' = [send_message(c, Frame("auth_ok", Null, Null, NULL)) EXCEPT ![c].pc = "loop"]
    /\ UNCHANGED <<nodes, node_vms, vm_operations, next_node, next_vm, next_op, next_token, clock, ret, resp, pendingVars, agentVars, callVars, ACTIVE_AGENT_CONNECTIONS, AGENT_WS_OUTBOUND_MESSAGES, TERMINAL_SESSIONS, term, next_conn, next_session, ws_enq_hist>>

\* a frame arrives on an authenticated handler: log, heartbeat, command_result,
\* terminal_data / terminal_exit / terminal_error, ping; any other type is
\* answered with unsupported_type
ws_agent_receive_frame(c, message) ==
    /\ conn[c].pc = "receive"
    /\ conn[c].node_id # Null
    /\ conn[c].received < MaxFrames
    /\ LET n == conn[c].node_id
           continue == [conn EXCEPT ![c].pc = "loop", ![c].received = @ + 1]
           reply(error) == [send_message(c, ErrorFrame(error)) EXCEPT ![c].pc = "loop", ![c].received = @ + 1]
           break(error) == [send_message(c, ErrorFrame(error)) EXCEPT ![c].pc = "finally", ![c].received = @ + 1]
       IN  CASE message.type = "log" ->
                    /\ node_logs' = append_node_log(node_logs, log_seq, n, "info", "agent log", Meta(Null, NULL))
                    /\ log_seq' = log_seq + Len(node_logs') - Len(node_logs)
                    /\ conn' = IF n \in Rows(nodes) THEN continue ELSE break("node_not_found")
                    /\ UNCHANGED <<nodes, node_vms, vm_operations, next_node, next_vm, next_op, next_token, clock, ret, TERMINAL_SESSIONS>>
             [] message.type = "heartbeat" ->
                    /\ record_heartbeat(conn[c].pair_token, n, NULL)
                    /\ conn' = IF ret'.status \in {"missing_token", "invalid_token", "node_mismatch", "hostname_mismatch"} THEN break("unauthorized") ELSE continue
                    /\ UNCHANGED TERMINAL_SESSIONS
             [] message.type = "command_result" ->
                    /\ process_agent_command_result(n, [operation_id |-> message.operation_id, status |-> "running", message |-> "msg", power_state |-> NULL])
                    /\ conn' = IF ret'.status = "not_found" THEN reply("operation_not_found") ELSE continue
                    /\ UNCHANGED TERMINAL_SESSIONS
             [] message.type \in {"terminal_data", "terminal_exit", "terminal_error"} ->
                    /\ TERMINAL_SESSIONS' = enqueue_terminal_session_event(TERMINAL_SESSIONS, message.session_id, Frame(message.type, message.session_id, conn[c].received + 1, NULL))
                    /\ conn' = IF message.session_id = Null THEN reply("session_id is required") ELSE IF message.session_id \notin DOMAIN TERMINAL_SESSIONS THEN reply("terminal_session_not_found") ELSE continue
                    /\ UNCHANGED <<storeVars, ret>>
             [] message.type = "ping" ->
                    /\ conn' = [send_message(c, Frame("pong", Null, Null, NULL)) EXCEPT ![c].pc = "loop", ![c].received = @ + 1]
                    /\ UNCHANGED <<storeVars, ret, TERMINAL_SESSIONS>>
             [] OTHER ->
                    /\ conn' = reply("unsupported_type")
                    /\ UNCHANGED <<storeVars, ret, TERMINAL_SESSIONS>>
    /\ UNCHANGED <<resp, pendingVars, agentVars, callVars, ACTIVE_AGENT_CONNECTIONS, AGENT_WS_OUTBOUND_MESSAGES, term, next_conn, next_session, ws_enq_hist>>

\* the websocket fails (the agent went away): ws.send / ws.receive raise
ws_agent_closed(c) ==
    /\ conn[c].pc \in {"send", "receive"}
    /\ conn' = [conn EXCEPT ![c].pc = "finally", ![c].broken = TRUE]
    /\ UNCHANGED <<storeVars, ret, resp, pendingVars, agentVars, callVars, ACTIVE_AGENT_CONNECTIONS, AGENT_WS_OUTBOUND_MESSAGES, TERMINAL_SESSIONS, term, next_conn, next_session, ws_enq_hist>>

\* finally: was_active = _deactivate_agent_connection(node_id, connection_id)
ws_agent_finally(c) ==
    /\ conn[c].pc = "finally"
    /\ ACTIVE_AGENT_CONNECTIONS' = IF conn[c].node_id = Null THEN ACTIVE_AGENT_CONNECTIONS ELSE deactivate_agent_connection(ACTIVE_AGENT_CONNECTIONS, conn[c].node_id, c)
    /\ conn' = [conn EXCEPT ![c].pc = IF conn[c].node_id # Null /\ is_current_agent_connection(conn[c].node_id, c) THEN "clear" ELSE "done"]
    /\ UNCHANGED <<storeVars, ret, resp, pendingVars, agentVars, callVars, AGENT_WS_OUTBOUND_MESSAGES, TERMINAL_SESSIONS, term, next_conn, next_session, ws_enq_hist>>

\* finally, was_active: _clear_agent_ws_messages(node_id)
ws_agent_clear(c) ==
    /\ conn[c].pc = "clear"
    /\ AGENT_WS_OUTBOUND_MESSAGES' = clear_agent_ws_messages(AGENT_WS_OUTBOUND_MESSAGES, conn[c].node_id)
    /\ conn' = [conn EXCEPT ![c].pc = "close"]
    /\ UNCHANGED <<storeVars, ret, resp, pendingVars, agentVars, callVars, ACTIVE_AGENT_CONNECTIONS, TERMINAL_SESSIONS, term, next_conn, next_session, ws_enq_hist>>

\* finally, was_active: _close_terminal_sessions_for_node and the warning log
ws_agent_close_sessions(c) ==
    /\ conn[c].pc = "close"
    /\ TERMINAL_SESSIONS' = close_terminal_sessions_for_node(TERMINAL_SESSIONS, conn[c].node_id, "Agent websocket disconnected")
    /\ node_logs' = append_node_log(node_logs, log_seq, conn[c].node_id, "warning", "Agent websocket disconnected", Meta(c, NULL))
    /\ log_seq' = log_seq + Len(node_logs') - Len(node_logs)
    /\ conn' = [conn EXCEPT ![c].pc = "done"]
    /\ UNCHANGED <<nodes, node_vms, vm_operations, next_node, next_vm, next_op, next_token, clock, ret, resp, pendingVars, agentVars, callVars, ACTIVE_AGENT_CONNECTIONS, AGENT_WS_OUTBOUND_MESSAGES, term, next_conn, next_session, ws_enq_hist>>

\* ------------------------------------------------------------ /ws/nodes/<node_id>/terminal
\* _enqueue_agent_ws_message by a terminal handler, and the order of the enqueues
terminal_enqueue(node_id, payload) ==
    /\ AGENT_WS_OUTBOUND_MESSAGES' = enqueue_agent_ws_message(AGENT_WS_OUTBOUND_MESSAGES, node_id, payload)
    /\ ws_enq_hist' = [ws_enq_hist EXCEPT ![node_id] = Append(@, payload)]

\* the queue of a session newly registered: the waiting notice when no agent is connected
register_queue(session_id, node_id) == IF is_agent_connected(node_id) THEN <<>> ELSE <<Frame("terminal_data", session_id, Null, "waiting for agent websocket connection")>>

\* ws_node_terminal up to terminal_ready: the node checks, _register_terminal_session,
\* the terminal_open enqueue, the waiting notice and the log row
ws_node_terminal_open(node_id) ==
    /\ next_session <= MaxSessions
    /\ node_id \in Rows(nodes)
    /\ nodes[node_id].state = NODE_STATE_PAIRED
    /\ TERMINAL_SESSIONS' = Insert(TERMINAL_SESSIONS, next_session, [node_id |-> node_id, queue |-> register_queue(next_session, node_id)])
    /\ terminal_enqueue(node_id, Frame("terminal_open", next_session, Null, NULL))
    /\ node_logs' = append_node_log(node_logs, log_seq, node_id, "info", "Terminal session opened", Meta(next_session, NULL))
    /\ log_seq' = log_seq + 1
    /\ term' = [term EXCEPT ![next_session] = [pc |-> "loop", node_id |-> node_id, ui_frames |-> 0]]
    /\ next_session' = next_session + 1
    /\ UNCHANGED <<nodes, node_vms, vm_operations, next_node, next_vm, next_op, next_token, clock, ret, resp, pendingVars, agentVars, callVars, ACTIVE_AGENT_CONNECTIONS, conn, next_conn>>

\* the inner loop: inbound_queue.get_nowait() and ws.send to the UI
ws_node_terminal_forward(s) ==
    /\ term[s].pc = "loop"
    /\ s \in DOMAIN TERMINAL_SESSIONS
    /\ TERMINAL_SESSIONS[s].queue # <<>>
    /\ TERMINAL_SESSIONS' = [TERMINAL_SESSIONS EXCEPT ![s].queue = Tail(@)]
    /\ UNCHANGED <<storeVars, ret, resp, pendingVars, agentVars, callVars, ACTIVE_AGENT_CONNECTIONS, AGENT_WS_OUTBOUND_MESSAGES, conn, term, next_conn, next_session, ws_enq_hist>>

\* the UI sends input or resize: the frame is enqueued for the agent
ws_node_terminal_receive(s, type) ==
    /\ term[s].pc = "loop"
    /\ term[s].ui_frames < MaxMsgs
    /\ terminal_enqueue(term[s].node_id, Frame(IF type = "input" THEN "terminal_input" ELSE "terminal_resize", s, term[s].ui_frames + 1, NULL))
    /\ term' = [term EXCEPT ![s].ui_frames = @ + 1]
    /\ UNCHANGED <<storeVars, ret, resp, pendingVars, agentVars, callVars, ACTIVE_AGENT_CONNECTIONS, TERMINAL_SESSIONS, conn, next_conn, next_session>>

\* the UI sends close, or its websocket fails: the loop ends
ws_node_terminal_end(s) ==
    /\ term[s].pc = "loop"
    /\ term' = [term EXCEPT ![s].pc = "finally"]
    /\ UNCHANGED <<storeVars, ret, resp, pendingVars, agentVars, callVars, ACTIVE_AGENT_CONNECTIONS, AGENT_WS_OUTBOUND_MESSAGES, TERMINAL_SESSIONS, conn, next_conn, next_session, ws_enq_hist>>

\* finally: _unregister_terminal_session, the terminal_close enqueue and the log row
ws_node_terminal_finally(s) ==
    /\ term[s].pc = "finally"
    /\ TERMINAL_SESSIONS' = Remove(TERMINAL_SESSIONS, {s})
    /\ terminal_enqueue(term[s].node_id, Frame("terminal_close", s, Null, NULL))
    /\ node_logs' = append_node_log(node_logs, log_seq, term[s].node_id, "info", "Terminal session closed", Meta(s, NULL))
    /\ log_seq' = log_seq + 1
    /\ term' = [term EXCEPT ![s].pc = "done"]
    /\ UNCHANGED <<nodes, node_vms, vm_operations, next_node, next_vm, next_op, next_token, clock, ret, resp, pendingVars, agentVars, callVars, ACTIVE_AGENT_CONNECTIONS, conn, next_conn, next_session>>

\* ------------------------------------------------------------ concurrent create_vm_request
\* the request threads that may be inside create_vm_request at once
CallIds == 1..MaxCalls

NoCall == [pc |-> "idle", node_id |-> Null, payload |-> [valid |-> FALSE, name |-> NULL, image_id |-> NULL, password |-> NULL]]

\* create_vm_request up to the INSERT: the validation and the SELECTs, each read in
\* autocommit mode (sqlite3 opens the transaction at the first INSERT).  A call
\* that is rejected returns; one that is not goes on to the INSERTs.
create_vm_select(k, node_id, payload) ==
    /\ create_calls[k].pc = "idle"
    /\ IF create_vm_rejection(node_id, payload) # "ok"
       THEN /\ ret' = Ret("create_vm_request", node_id, create_vm_rejection(node_id, payload), Null, Null)
            /\ UNCHANGED create_calls
       ELSE /\ create_calls' = [create_calls EXCEPT ![k] = [pc |-> "insert", node_id |-> node_id, payload |-> payload]]
            /\ UNCHANGED ret
    /\ UNCHANGED <<storeVars, resp, pendingVars, routerVars, agentVars, enqueue_calls, auxVars>>

\* create_vm_request from the first INSERT to the commit: one write transaction
create_vm_commit(k) ==
    /\ create_calls[k].pc = "insert"
    /\ create_vm_insert(create_calls[k].node_id, create_calls[k].payload)
    /\ create_calls' = [create_calls EXCEPT ![k] = NoCall]
    /\ UNCHANGED <<resp, pendingVars, routerVars, agentVars, enqueue_calls, auxVars>>

\* ------------------------------------------------------------ concurrent _enqueue_terminal_session_event
\* the threads that put events on the inbound queue of a terminal session: a
\* /ws/agent handler passing on the terminal frames of its agent, and the handler
\* of a connection that has exited, inside _close_terminal_sessions_for_node
EnqueueIds == {"agent", "cleanup"}

NoEnqueue == [pc |-> "idle", session_id |-> Null, payload |-> Frame("none", Null, Null, NULL), returned |-> TRUE, todo |-> <<>>, count |-> 0]

\* _enqueue_terminal_session_event up to its first put_nowait: the session is looked
\* up under TERMINAL_SESSIONS_LOCK; False for a session that is not registered
enqueue_event_lookup(call, session_id, payload) ==
    IF session_id \in DOMAIN TERMINAL_SESSIONS
    THEN [call EXCEPT !.pc = "put", !.session_id = session_id, !.payload = payload, !.count = @ + 1]
    ELSE [call EXCEPT !.session_id = Null, !.payload = payload, !.returned = FALSE, !.count = @ + 1]

\* a terminal_data frame of the agent reaches its handler, which starts the enqueue
ws_agent_terminal_event(session_id) ==
    /\ enqueue_calls["agent"].pc = "idle"
    /\ enqueue_calls["agent"].count < MaxEnqueues
    /\ enqueue_calls' = [enqueue_calls EXCEPT !["agent"] = enqueue_event_lookup(@, session_id, Frame("terminal_data", session_id, enqueue_calls["agent"].count + 1, NULL))]
    /\ UNCHANGED <<storeVars, ret, resp, pendingVars, routerVars, agentVars, create_calls, auxVars>>

\* _close_terminal_sessions_for_node: the ids of the sessions of the node, read under
\* TERMINAL_SESSIONS_LOCK in the order of their registration
close_sessions_ids(node_id) ==
    /\ enqueue_calls["cleanup"].pc = "idle"
    /\ enqueue_calls["cleanup"].todo = <<>>
    /\ enqueue_calls["cleanup"].count < MaxEnqueues
    /\ \E s \in DOMAIN TERMINAL_SESSIONS : TERMINAL_SESSIONS[s].node_id = node_id
    /\ enqueue_calls' = [enqueue_calls EXCEPT !["cleanup"].todo = Ascending({s \in DOMAIN TERMINAL_SESSIONS : TERMINAL_SESSIONS[s].node_id = node_id})]
    /\ UNCHANGED <<storeVars, ret, resp, pendingVars, routerVars, agentVars, create_calls, auxVars>>

\* _close_terminal_sessions_for_node: the enqueue of the terminal_error for the next id
close_sessions_next ==
    /\ enqueue_calls["cleanup"].pc = "idle"
    /\ enqueue_calls["cleanup"].todo # <<>>
    /\ LET session_id == Head(enqueue_calls["cleanup"].todo)
       IN  enqueue_calls' = [enqueue_calls EXCEPT !["cleanup"] = [enqueue_event_lookup(@, session_id, Frame("terminal_error", session_id, Null, "Agent websocket disconnected")) EXCEPT !.todo = Tail(@)]]
    /\ UNCHANGED <<storeVars, ret, resp, pendingVars, routerVars, agentVars, create_calls, auxVars>>

\* incoming_queue.put_nowait(payload): the event is queued, or queue.Full is raised
enqueue_event_put(e) ==
    /\ enqueue_calls[e].pc = "put"
    /\ LET s == enqueue_calls[e].session_id
       IN  IF Len(TERMINAL_SESSIONS[s].queue) < TerminalQueueMax
           THEN /\ TERMINAL_SESSIONS' = [TERMINAL_SESSIONS EXCEPT ![s].queue = Append(@, enqueue_calls[e].payload)]
                /\ enqueue_calls' = [enqueue_calls EXCEPT ![e].pc = "idle", ![e].returned = TRUE]
           ELSE /\ enqueue_calls' = [enqueue_calls EXCEPT ![e].pc = "get"]
                /\ UNCHANGED TERMINAL_SESSIONS
    /\ UNCHANGED <<storeVars, ret, resp, pendingVars, agentVars, create_calls, auxVars, ACTIVE_AGENT_CONNECTIONS, AGENT_WS_OUTBOUND_MESSAGES, conn, term, next_conn, next_session, ws_enq_hist>>

\* on queue.Full: incoming_queue.get_nowait(), queue.Empty passed over
enqueue_event_get(e) ==
    /\ enqueue_calls[e].pc = "get"
    /\ LET s == enqueue_calls[e].session_id
       IN  TERMINAL_SESSIONS' = [TERMINAL_SESSIONS EXCEPT ![s].queue = IF @ = <<>> THEN @ ELSE Tail(@)]
    /\ enqueue_calls' = [enqueue_calls EXCEPT ![e].pc = "retry"]
    /\ UNCHANGED <<storeVars, ret, resp, pendingVars, agentVars, create_calls, auxVars, ACTIVE_AGENT_CONNECTIONS, AGENT_WS_OUTBOUND_MESSAGES, conn, term, next_conn, next_session, ws_enq_hist>>

\* the second incoming_queue.put_nowait(payload): True, or False on queue.Full
enqueue_event_retry(e) ==
    /\ enqueue_calls[e].pc = "retry"
    /\ LET s == enqueue_calls[e].session_id
       IN  IF Len(TERMINAL_SESSIONS[s].queue) < TerminalQueueMax
           THEN /\ TERMINAL_SESSIONS' = [TERMINAL_SESSIONS EXCEPT ![s].queue = Append(@, enqueue_calls[e].payload)]
                /\ enqueue_calls' = [enqueue_calls EXCEPT ![e].pc = "idle", ![e].returned = TRUE]
           ELSE /\ enqueue_calls' = [enqueue_calls EXCEPT ![e].pc = "idle", ![e].returned = FALSE]
                /\ UNCHANGED TERMINAL_SESSIONS
    /\ UNCHANGED <<storeVars, ret, resp, pendingVars, agentVars, create_calls, auxVars, ACTIVE_AGENT_CONNECTIONS, AGENT_WS_OUTBOUND_MESSAGES, conn, term, next_conn, next_session, ws_enq_hist>>

\* ------------------------------------------------------------ agent
\* the threads of the agent that run execute_command: command pollers and the
\* handler threads of the streamer
ThreadIds == 1..MaxThreads

NoThread == [pc |-> "idle", command_type |-> NULL, command_id |-> Null, status |-> NULL]

\* the agent runs on the host of node 1
AgentNode == 1

\* the command types the agent tells apart: by the prefix vm_, by the prefix
\* container_, and terminal_exec
VmCommandTypes == {"vm_create", "vm_start", "vm_stop", "vm_reboot", "vm_delete"}
ContainerCommandTypes == {"container_start", "container_stop"}
CommandTypes == {"vm_start", "vm_stop", "container_start", "terminal_exec"}

\* the event execute_command tests for a command type: Event.is_set()
is_set(command_type) ==
    CASE command_type \in VmCommandTypes -> vm_command_in_progress
      [] command_type \in ContainerCommandTypes -> container_command_in_progress
      [] OTHER -> terminal_command_in_progress

\* Event.set() / Event.clear() on the event of a command type
set_event(command_type, value) ==
    /\ vm_command_in_progress' = IF command_type \in VmCommandTypes THEN value ELSE vm_command_in_progress
    /\ container_command_in_progress' = IF command_type \in ContainerCommandTypes THEN value ELSE container_command_in_progress
    /\ terminal_command_in_progress' = IF command_type \notin VmCommandTypes \cup ContainerCommandTypes THEN value ELSE terminal_command_in_progress

UnchangedEvents == UNCHANGED <<vm_command_in_progress, container_command_in_progress, terminal_command_in_progress>>

\* send_result of execute_command: the result is posted to the Master, or the post
\* fails and the exception is logged and dropped.  Only the result of a vm_* command
\* reaches apply_vm_command_result.
send_result(command_type, command_id, status) ==
    \/ UNCHANGED <<storeVars, ret, resp, pendingVars, routerVars, callVars>>
    \/ /\ command_type \in VmCommandTypes
       /\ commands_result_request(AgentNode, IF AgentNode \in Rows(nodes) THEN nodes[AgentNode].pair_token ELSE Null, "", [operation_id |-> command_id, status |-> status, message |-> "msg", power_state |-> NULL])

\* a thread enters execute_command with a command: the poller after a long-poll, a
\* handler thread started for a command frame
execute_command(t, command_type, command_id) ==
    /\ agent_threads[t].pc = "idle"
    /\ agent_threads' = [agent_threads EXCEPT ![t] = [pc |-> "is_set", command_type |-> command_type, command_id |-> command_id, status |-> NULL]]
    /\ UnchangedEvents
    /\ UNCHANGED <<storeVars, ret, resp, pendingVars, routerVars, callVars>>

\* if <event>.is_set(): the test of the concurrency guard
execute_command_is_set(t) ==
    /\ agent_threads[t].pc = "is_set"
    /\ agent_threads' = [agent_threads EXCEPT ![t].pc = IF is_set(agent_threads[t].command_type) THEN "busy" ELSE "set"]
    /\ UnchangedEvents
    /\ UNCHANGED <<storeVars, ret, resp, pendingVars, routerVars, callVars>>

\* send_result(status="busy"); return
execute_command_busy(t) ==
    /\ agent_threads[t].pc = "busy"
    /\ send_result(agent_threads[t].command_type, agent_threads[t].command_id, "busy")
    /\ agent_threads' = [agent_threads EXCEPT ![t] = NoThread]
    /\ UnchangedEvents
    /\ UNCHANGED callVars

\* <event>.set()
execute_command_set(t) ==
    /\ agent_threads[t].pc = "set"
    /\ set_event(agent_threads[t].command_type, TRUE)
    /\ agent_threads' = [agent_threads EXCEPT ![t].pc = "running"]
    /\ UNCHANGED <<storeVars, ret, resp, pendingVars, routerVars, callVars>>

\* send_result(status="running")
execute_command_running(t) ==
    /\ agent_threads[t].pc = "running"
    /\ send_result(agent_threads[t].command_type, agent_threads[t].command_id, "running")
    /\ agent_threads' = [agent_threads EXCEPT ![t].pc = "execute"]
    /\ UnchangedEvents
    /\ UNCHANGED callVars

\* execute_vm_command / execute_container_command / execute_terminal_shell returns
execute_command_execute(t, status) ==
    /\ agent_threads[t].pc = "execute"
    /\ agent_threads' = [agent_threads EXCEPT ![t].pc = "result", ![t].status = status]
    /\ UnchangedEvents
    /\ UNCHANGED <<storeVars, ret, resp, pendingVars, routerVars, callVars>>

\* send_result(status=status) with the outcome
execute_command_result(t) ==
    /\ agent_threads[t].pc = "result"
    /\ send_result(agent_threads[t].command_type, agent_threads[t].command_id, agent_threads[t].status)
    /\ agent_threads' = [agent_threads EXCEPT ![t].pc = "clear"]
    /\ UnchangedEvents
    /\ UNCHANGED callVars

\* finally: <event>.clear()
execute_command_clear(t) ==
    /\ agent_threads[t].pc = "clear"
    /\ set_event(agent_threads[t].command_type, FALSE)
    /\ agent_threads' = [agent_threads EXCEPT ![t] = NoThread]
    /\ UNCHANGED <<storeVars, ret, resp, pendingVars, routerVars, callVars>>

\* the steps a thread takes inside execute_command
execute_command_step(t) ==
    \/ execute_command_is_set(t)
    \/ execute_command_busy(t)
    \/ execute_command_set(t)
    \/ execute_command_running(t)
    \/ \E status \in {"succeeded", "failed"} : execute_command_execute(t, status)
    \/ execute_command_result(t)
    \/ execute_command_clear(t)

\* ------------------------------------------------------------ specification
\* the inputs the environment may send
PairCodeInputs == PairCodes \cup {"k7q2jm", "bad"}
HostnameInputs == {NULL, "h1"}
BogusToken == MaxNodes + 1
TokenInputs == 0..BogusToken
CapabilityInputs == {NULL, "ready", "not_ready"}
VmPayloads == {[valid |-> TRUE, name |-> nm, image_id |-> "ubuntu-24-04", password |-> GuestPassword] : nm \in VmNames} \cup {[valid |-> FALSE, name |-> "db-1", image_id |-> "ubuntu-24-04", password |-> GuestPassword], [valid |-> TRUE, name |-> "db-1", image_id |-> "nope", password |-> GuestPassword]}
VmActions == {"start", "stop", "reboot", "delete"}
\* the statuses execute_command of the agent reports for a vm_* command: busy when
\* another VM command is in progress, else running and then the outcome
ResultStatuses == {"running", "succeeded", "failed", "busy"}
PowerStates == {NULL, "running", "shut off"}
ResultPayloads == {[operation_id |-> o, status |-> st, message |-> "msg", power_state |-> ps] : o \in OpIds, st \in ResultStatuses, ps \in PowerStates}
HeaderHostnames == {"", "H1", "h2"}

\* the in-memory state of a master process that has just started
InitMemory ==
    /\ ret = Ret("init", Null, "ok", Null, Null)
    /\ resp = Resp("startup", 0)
    /\ PENDING_AGENT_COMMANDS = <<>>
    /\ to_enqueue = {}
    /\ enq_hist = [n \in NodeIds |-> <<>>]
    /\ deq_hist = [n \in NodeIds |-> <<>>]
    /\ ACTIVE_AGENT_CONNECTIONS = <<>>
    /\ AGENT_WS_OUTBOUND_MESSAGES = <<>>
    /\ TERMINAL_SESSIONS = <<>>
    /\ conn = [c \in ConnIds |-> NoConn]
    /\ term = [s \in SessionIds |-> NoTerm]
    /\ next_conn = 1
    /\ next_session = 1
    /\ ws_enq_hist = [n \in NodeIds |-> <<>>]

\* the agent's pairings and worker threads (agent/main.py main)
Gens == 1..MaxGens
WorkerKinds == {"heartbeat", "poller", "streamer"}
WorkerIds == WorkerKinds \X Gens
NoWorker == [pc |-> "none", stop |-> FALSE]
StartedWorker == [pc |-> "idle", stop |-> FALSE]

\* the agent after its first pairing: state saved, three workers started, main in its
\* loop; the master accepts the token of generation 1
InitProcess ==
    [pc |-> "loop", state |-> 1, event |-> FALSE, accepted |-> 1, issued |-> 1, pending |-> FALSE,
     workers |-> [w \in WorkerIds |-> IF w[2] = 1 THEN StartedWorker ELSE NoWorker],
     late |-> {}]

\* the request threads inside pair_node
PairCallIds == {"first", "second"}
NoReturn == [status |-> "NULL", node |-> Null, token |-> Null]
NoPairCall == [pc |-> "idle", node |-> Null, hostname |-> "NULL", returned |-> NoReturn, count |-> 0]

\* the agent's terminal sessions (agent/main.py TerminalSessionManager.__init__)
OpenIds == 1..MaxOpens
Domains == {"vm-a", "vm-b"}
NoSession == [registered |-> FALSE, domain |-> "NULL", send_exit |-> TRUE, stop |-> FALSE, process |-> "none",
              reader |-> "none", latest_send_exit |-> TRUE, displaced |-> FALSE]
NoOpen == [pc |-> "idle", session_id |-> Null, domain |-> "NULL", existing |-> Null]
InitTerminal ==
    [sessions |-> [s \in OpenIds |-> NoSession], vm_domain_to_session |-> [d \in Domains |-> Null],
     open |-> NoOpen, next_session_id |-> 1, frames |-> {}]

\* an agent process that has just started: no command in progress, every thread idle
InitAgent ==
    /\ create_calls = [k \in CallIds |-> NoCall]
    /\ enqueue_calls = [e \in EnqueueIds |-> NoEnqueue]
    /\ delivered = [o \in OpIds |-> 0]
    /\ log_stream = NoStream
    /\ agent_process = InitProcess
    /\ terminal_manager = InitTerminal
    /\ pair_calls = [k \in PairCallIds |-> NoPairCall]
    /\ vm_command_in_progress = FALSE
    /\ container_command_in_progress = FALSE
    /\ terminal_command_in_progress = FALSE
    /\ agent_threads = [t \in ThreadIds |-> NoThread]

\* a master started on a new database (init_db on an empty file)
Init ==
    /\ nodes = <<>>
    /\ node_vms = <<>>
    /\ vm_operations = <<>>
    /\ node_logs = <<>>
    /\ log_seq = 0
    /\ next_node = 1
    /\ next_vm = 1
    /\ next_op = 1
    /\ next_token = 1
    /\ clock = 1
    /\ InitMemory
    /\ InitAgent

\* node lifecycle: the pairing and heartbeat surface of the HTTP API
Next ==
    \/ \E code \in PairCodes : post_node(code)
    \/ \E code \in PairCodeInputs, h \in HostnameInputs : post_pair(code, h)
    \/ \E t \in TokenInputs, n \in NodeIds, c \in CapabilityInputs : post_heartbeat(t, n, c)
    \/ \E n \in NodeIds : delete_node_route(n)

Spec == Init /\ [][Next]_vars

\* a master started on a database a previous run left: node 1 was created, paired
\* from host h1 and has reported the vm capability ready (a state Spec reaches)
PairedNode == [pair_code |-> "K7Q2JM", state |-> NODE_STATE_PAIRED, pair_token |-> 1, created_at |-> 1, paired_at |-> 2, last_heartbeat_at |-> 3, agent_hostname |-> "h1", capabilities |-> "ready", last_metrics |-> NoMetrics]

PairedNodeLogs == insert_node_log(insert_node_log(insert_node_log(<<>>, 0, 1, "info", "Node created and waiting for pairing", Meta(Null, "K7Q2JM")), 1, 1, "info", "Node paired with agent", Meta(Null, "h1")), 2, 1, "info", "Heartbeat", Meta(Null, NULL))

InitPaired ==
    /\ nodes = (1 :> PairedNode)
    /\ node_vms = <<>>
    /\ vm_operations = <<>>
    /\ node_logs = PairedNodeLogs
    /\ log_seq = 3
    /\ next_node = 2
    /\ next_vm = 1
    /\ next_op = 1
    /\ next_token = 2
    /\ clock = 4
    /\ InitMemory
    /\ InitAgent

\* the agent of a paired node presents the node's own token
AgentToken(n) == IF n \in Rows(nodes) THEN nodes[n].pair_token ELSE BogusToken

\* VM lifecycle: the VM routes, the agent's result route, the sweeps
NextVm ==
    \/ \E n \in NodeIds, p \in VmPayloads : post_node_vm(n, p)
    \/ \E n \in NodeIds, v \in VmIds, a \in VmActions : queue_vm_action_route(n, v, a)
    \/ \E n \in NodeIds, p \in ResultPayloads : post_agent_command_result(n, AgentToken(n), "", p)
    \/ get_nodes
    \/ master_restart
    \/ \E n \in NodeIds : delete_node_route(n)

VmSpec == InitPaired /\ [][NextVm]_vars

\* the frames an agent may send on /ws/agent
AgentAuthMessages == {[type |-> "auth", node_id |-> 1, pair_token |-> t, session_id |-> Null] : t \in {1, BogusToken}}

\* the steps a /ws/agent handler thread takes by itself
ws_agent_step(c) ==
    \/ ws_agent_loop(c)
    \/ ws_agent_drain(c)
    \/ ws_agent_send(c)
    \/ ws_agent_receive_timeout(c)
    \/ ws_agent_authenticated(c)
    \/ ws_agent_finally(c)
    \/ ws_agent_clear(c)
    \/ ws_agent_close_sessions(c)

\* agent sessions and terminal sessions of a paired node
NextRouter ==
    \/ ws_agent_connect
    \/ \E c \in ConnIds : ws_agent_step(c)
    \/ \E c \in ConnIds, m \in AgentAuthMessages : ws_agent_receive_auth(c, m)
    \/ \E c \in ConnIds : ws_agent_closed(c)
    \/ \E n \in NodeIds : ws_node_terminal_open(n)
    \/ \E s \in SessionIds : ws_node_terminal_forward(s)
    \/ \E s \in SessionIds, t \in {"input", "resize"} : ws_node_terminal_receive(s, t)
    \/ \E s \in SessionIds : ws_node_terminal_end(s)
    \/ \E s \in SessionIds : ws_node_terminal_finally(s)

RouterSpec == InitPaired /\ [][NextRouter]_vars

\* agent sessions and terminal sessions without UI input: the steps of a supersession
NextLive ==
    \/ ws_agent_connect
    \/ \E c \in ConnIds : ws_agent_step(c)
    \/ \E c \in ConnIds, m \in AgentAuthMessages : ws_agent_receive_auth(c, m)
    \/ \E c \in ConnIds : ws_agent_closed(c)
    \/ \E n \in NodeIds : ws_node_terminal_open(n)
    \/ \E s \in SessionIds : ws_node_terminal_forward(s)
    \/ \E s \in SessionIds : ws_node_terminal_end(s)
    \/ \E s \in SessionIds : ws_node_terminal_finally(s)

\* each /ws/agent handler runs in a thread of its own and never blocks (the receive
\* has a timeout): a step a handler can take is eventually taken.  Nothing is
\* assumed of the agents and the UI.
LiveSpec == InitPaired /\ [][NextLive]_vars /\ \A c \in ConnIds : WF_vars(ws_agent_step(c))

\* the results an agent posts for the commands it was given
SucceededPayloads == {[operation_id |-> o, status |-> "succeeded", message |-> "msg", power_state |-> NULL] : o \in OpIds}

\* request threads of the VM routes interleaved with the agent's long-poll
NextPending ==
    \/ \E n \in Rows(nodes), p \in VmPayloads : route_store_call(n, Null, "create", p)
    \/ \E n \in Rows(nodes), v \in Rows(node_vms), a \in {"start", "stop"} : route_store_call(n, v, a, CHOOSE p \in VmPayloads : TRUE)
    \/ \E req \in to_enqueue : route_enqueue_call(req)
    \/ \E n \in NodeIds : post_agent_next_command(n, AgentToken(n), "")
    \/ \E n \in Rows(nodes), p \in SucceededPayloads : post_agent_command_result(n, AgentToken(n), "", p)

PendingSpec == InitPaired /\ [][NextPending]_vars

\* a master started on a database a previous run left with a VM: node 1 as in
\* InitPaired, VM 1 created and reported running (a state VmSpec reaches).  The rows
\* of the previous run carry times before this run, which starts at OrderStart.
OrderStart == 3

VmNode == [PairedNode EXCEPT !.created_at = -5, !.paired_at = -4, !.last_heartbeat_at = -3]

VmRow == [node_id |-> 1, name |-> "db-1", state |-> "running", last_error |-> NULL, created_at |-> -2, updated_at |-> -1]

VmCreateOperation == [node_id |-> 1, vm_id |-> 1, operation_type |-> "create", status |-> "succeeded", request |-> REDACTED, result |-> "running", error |-> NULL, created_at |-> -2, started_at |-> -1, ended_at |-> -1]

VmLogs == insert_node_log(insert_node_log(PairedNodeLogs, 3, 1, "info", "VM create queued", Meta(1, NULL)), 4, 1, "info", "VM operation succeeded", Meta(1, NULL))

InitVm ==
    /\ nodes = (1 :> VmNode)
    /\ node_vms = (1 :> VmRow)
    /\ vm_operations = (1 :> VmCreateOperation)
    /\ node_logs = VmLogs
    /\ log_seq = 5
    /\ next_node = 2
    /\ next_vm = 2
    /\ next_op = 2
    /\ next_token = 2
    /\ clock = OrderStart
    /\ InitMemory
    /\ InitAgent

\* the results an agent may report for the operations of the node
OrderPayloads == {[operation_id |-> o, status |-> st, message |-> "msg", power_state |-> ps] : o \in OpIds, st \in {"running", "succeeded", "failed"}, ps \in PowerStates}

\* actions queued for one VM and their results, delivered in any order and any
\* number of times
NextOrder ==
    \/ \E a \in VmActions : queue_vm_action_route(1, 1, a)
    \/ \E p \in OrderPayloads : post_agent_command_result(1, AgentToken(1), "", p)

OrderSpec == InitVm /\ [][NextOrder]_vars

\* the log queries of the UI
LimitInputs == 0..(LogsLimitMax + 1)

MaxSince == 5

SinceInputs == {NoSince} \cup 0..MaxSince

\* nodes are created, paired, report heartbeats and are deleted while their logs are read
NextLogs ==
    \/ \E code \in PairCodes : post_node(code)
    \/ \E n \in Rows(nodes), c \in {"ready"} : post_heartbeat(AgentToken(n), n, c)
    \/ \E n \in Rows(nodes) : delete_node_route(n)
    \/ \E n \in NodeIds, l \in LimitInputs, s \in SinceInputs : get_node_logs(n, l, s)

LogsSpec == InitPaired /\ [][NextLogs]_vars

\* the agent-scoped endpoints called with any token and any X-Agent-Hostname header,
\* by the agents of two nodes and by strangers
NextAuth ==
    \/ \E code \in PairCodes : post_node(code)
    \/ \E code \in PairCodes, h \in HostnameInputs : post_pair(code, h)
    \/ \E n \in Rows(nodes), p \in {q \in VmPayloads : q.valid /\ q.image_id \in VmImages} : post_node_vm(n, p)
    \/ \E n \in NodeIds, t \in TokenInputs, h \in HeaderHostnames : post_agent_next_command(n, t, h)
    \/ \E n \in NodeIds, t \in TokenInputs, h \in HeaderHostnames, p \in {q \in SucceededPayloads : q.operation_id \in Rows(vm_operations)} : post_agent_command_result(n, t, h, p)

AuthSpec == InitPaired /\ [][NextAuth]_vars

\* the threads of one agent given commands of every type, by the poller and by
\* command frames, in every interleaving
NextAgent ==
    \/ \E t \in ThreadIds, ct \in CommandTypes : execute_command(t, ct, 1)
    \/ \E t \in ThreadIds : execute_command_step(t)

AgentSpec == InitPaired /\ [][NextAgent]_vars

\* the frames an agent, or anyone else, may send on /ws/agent
AgentFrame(type, pair_token) == [type |-> type, node_id |-> 1, pair_token |-> pair_token, session_id |-> 1, operation_id |-> 1]
FirstFrames ==
    {AgentFrame("auth", t) : t \in {Null, 1, BogusToken}}
        \cup {AgentFrame(type, 1) : type \in {"log", "heartbeat", "command_result", "terminal_data", "ping", "subscribe_logs", "invalid_json", "invalid_payload"}}
AgentFrames == {AgentFrame(type, Null) : type \in {"heartbeat", "terminal_data"}}

\* agent handlers given any first frame, and any frame once authenticated, beside
\* a terminal session whose frames wait in the outbound buffer
NextHandshake ==
    \/ ws_agent_connect
    \/ \E c \in ConnIds : ws_agent_step(c)
    \/ \E c \in ConnIds, m \in FirstFrames : ws_agent_receive_auth(c, m)
    \/ \E c \in ConnIds, m \in AgentFrames : ws_agent_receive_frame(c, m)
    \/ \E c \in ConnIds : ws_agent_closed(c)
    \/ \E n \in NodeIds : ws_node_terminal_open(n)

HandshakeSpec == InitPaired /\ [][NextHandshake]_vars

\* POST /api/heartbeat with a usage payload
post_heartbeat_usage(pair_token, node_id, usage) ==
    /\ record_heartbeat_usage(pair_token, node_id, usage)
    /\ resp' = Resp("post_heartbeat", CASE ret'.status \in {"missing_token", "invalid_token"} -> 401 [] ret'.status = "node_mismatch" -> 403 [] ret'.status \in {"ValueError", "OverflowError"} -> 500 [] OTHER -> 200)
    /\ UNCHANGED <<pendingVars, routerVars, agentVars, callVars>>

\* the numbers a usage payload may carry: negative, zero, ties of the rounding,
\* within range, above 100, nan and the infinities
Num(n, up) == [kind |-> "num", n |-> n, up |-> up]
NoNumber == [kind |-> "none", n |-> 0, up |-> FALSE]
NotFinite == {[kind |-> k, n |-> 0, up |-> FALSE] : k \in {"nan", "inf", "-inf"}}
PercentInputs == {NoNumber} \cup NotFinite \cup {Num(n, up) : n \in {-250000, -5, -4, 0, 12345, 99994, 99995, 100004, 100005, 250000}, up \in BOOLEAN}
ByteInputs == {NoNumber} \cup NotFinite \cup {Num(n, FALSE) : n \in {-2000, -999, 0, 1999, 3000}}
Usage(cpu, storage, used) == [f \in PercentFields \cup ByteFields |-> IF f = "cpu_percent" THEN cpu ELSE IF f = "storage_percent" THEN storage ELSE IF f = "memory_used_bytes" THEN used ELSE NoNumber]
UsageInputs ==
    {Usage(p, q, Num(-2000, FALSE)) : p \in PercentInputs, q \in {NoNumber, Num(250000, FALSE)}}
        \cup {Usage(Num(-5, FALSE), NoNumber, b) : b \in ByteInputs}
        \cup {Usage(NoNumber, NoNumber, NoNumber)}

\* heartbeats of a paired node with every usage payload
NextMetrics ==
    \E t \in {1, BogusToken}, usage \in UsageInputs : post_heartbeat_usage(t, 1, usage)

MetricsSpec == InitPaired /\ [][NextMetrics]_vars

\* _enqueue_agent_ws_message on the wide scale: the k-th message enqueued for a node
buffer_enqueue(node_id) ==
    /\ Len(ws_enq_hist[node_id]) < MaxEnqueues
    /\ LET payload == Frame("terminal_input", 1, Len(ws_enq_hist[node_id]) + 1, NULL)
       IN  /\ AGENT_WS_OUTBOUND_MESSAGES' = Put(AGENT_WS_OUTBOUND_MESSAGES, node_id, append_capped(GetList(AGENT_WS_OUTBOUND_MESSAGES, node_id), payload, WideCap, WideKeep))
           /\ ws_enq_hist' = [ws_enq_hist EXCEPT ![node_id] = Append(@, payload)]
    /\ UNCHANGED <<storeVars, ret, resp, pendingVars, agentVars, callVars, ACTIVE_AGENT_CONNECTIONS, TERMINAL_SESSIONS, conn, term, next_conn, next_session>>

\* _drain_agent_ws_messages and _clear_agent_ws_messages by an agent handler of the node
buffer_take(node_id, max_items) ==
    /\ node_id \in DOMAIN AGENT_WS_OUTBOUND_MESSAGES
    /\ AGENT_WS_OUTBOUND_MESSAGES' = IF max_items = 0 THEN clear_agent_ws_messages(AGENT_WS_OUTBOUND_MESSAGES, node_id) ELSE drain_agent_ws_messages(AGENT_WS_OUTBOUND_MESSAGES, node_id, max_items)
    /\ UNCHANGED <<storeVars, ret, resp, pendingVars, agentVars, callVars, ACTIVE_AGENT_CONNECTIONS, TERMINAL_SESSIONS, conn, term, next_conn, next_session, ws_enq_hist>>

\* enqueues for two nodes with drains and clears in between
NextBuffer ==
    \/ \E n \in NodeIds : buffer_enqueue(n)
    \/ \E n \in NodeIds, k \in 0..DrainMax : buffer_take(n, k)

BufferSpec == InitPaired /\ [][NextBuffer]_vars

\* terminal sessions of the paired node, their handlers forwarding what is queued,
\* and the two threads that enqueue, each step of an enqueue on its own
NextQueue ==
    \/ \E n \in NodeIds : ws_node_terminal_open(n)
    \/ \E s \in SessionIds : ws_node_terminal_forward(s)
    \/ \E s \in SessionIds : ws_agent_terminal_event(s)
    \/ \E n \in NodeIds : close_sessions_ids(n)
    \/ close_sessions_next
    \/ \E e \in EnqueueIds : enqueue_event_put(e)
    \/ \E e \in EnqueueIds : enqueue_event_get(e)
    \/ \E e \in EnqueueIds : enqueue_event_retry(e)

QueueSpec == InitPaired /\ [][NextQueue]_vars

\* nodes are created, paired and report a capability while VMs are requested on them
NextAdmission ==
    \/ \E code \in PairCodes : post_node(code)
    \/ \E n \in NodeIds : post_pair(IF n \in Rows(nodes) THEN nodes[n].pair_code ELSE "bad", "h1")
    \/ \E n \in NodeIds, c \in {"ready", "not_ready"} : post_heartbeat(AgentToken(n), n, c)
    \/ \E n \in NodeIds, p \in VmPayloads : post_node_vm(n, p)

AdmissionSpec == Init /\ [][NextAdmission]_vars

\* the agent delivers the succeeded result of an operation, once more each time
\* (a result is sent again when its delivery was not acknowledged)
deliver_result(node_id, payload) ==
    /\ delivered[payload.operation_id] < MaxDeliveries
    /\ commands_result_request(node_id, AgentToken(node_id), "", payload)
    /\ delivered' = [delivered EXCEPT ![payload.operation_id] = @ + 1]
    /\ UNCHANGED <<agentVars, create_calls, enqueue_calls, log_stream, procVars>>

\* a node with a running VM: actions are queued for the VM and their succeeded
\* results are delivered once or twice
NextRedelivery ==
    \/ \E a \in VmActions : queue_vm_action_route(1, 1, a)
    \/ \E p \in SucceededPayloads : deliver_result(1, p)

RedeliverySpec == InitVm /\ [][NextRedelivery]_vars

\* a log stream on a node whose log grows by heartbeats, beside a second node; the
\* streamed node may be deleted
StreamLimits == {1, 2}

NextStream ==
    \/ \E n \in NodeIds, l \in StreamLimits : stream_open(n, l)
    \/ stream_poll
    \/ stream_closed
    \/ \E code \in {"AAAAA1"} : post_node(code)
    \/ \E n \in Rows(nodes) : post_heartbeat(AgentToken(n), n, NULL)
    \/ \E n \in Rows(nodes) : delete_node_route(n)

\* the handler thread of a stream wakes up every second: a poll that can be made
\* is eventually made.  Nothing is assumed of the client and of the other requests.
StreamSpec == InitPaired /\ [][NextStream]_vars /\ WF_vars(stream_poll)

\* ------------------------------------------------------------ agent control loop
\* (agent/main.py main, pair_until_success; agent/heartbeat.py HeartbeatSender;
\* CommandPoller; agent/ws_stream.py). A pairing is numbered by its generation: the
\* node_id and pair_token of generation g are the ones the g-th successful pair
\* response carried. Generation 0 is "no pairing".
\* workers of a newer generation than g have been started
RestartedAfter(g) == \E w \in WorkerIds : w[2] > g /\ agent_process.workers[w].pc # "none"

\* the senders that used the token of a generation after the restart with a newer one
LateAfterSend(w) == IF RestartedAfter(w[2]) THEN agent_process.late \cup {w} ELSE agent_process.late

UnchangedButProcess == UNCHANGED <<storeVars, ret, resp, pendingVars, routerVars, agentVars, create_calls, enqueue_calls, delivered, log_stream, terminal_manager, pair_calls>>

\* the operator removes the node on the master and registers it again: the old token
\* is refused from now on and a pair code is pending
master_revoke ==
    /\ agent_process.accepted # 0
    /\ agent_process.issued < MaxGens
    /\ agent_process' = [agent_process EXCEPT !.accepted = 0, !.pending = TRUE]
    /\ UnchangedButProcess

\* Thread.join(timeout=2) after _stop_event.set(): stop() returns whether or not the
\* thread has ended
stop(workers, kinds) ==
    [w \in WorkerIds |-> IF w[1] \in kinds /\ workers[w].pc \notin {"none", "exited"}
                         THEN [workers[w] EXCEPT !.stop = TRUE] ELSE workers[w]]

\* main, while True: auth_failure_event.is_set() -> auth_failure_event.clear()
main_auth_failure ==
    /\ agent_process.pc = "loop"
    /\ agent_process.event
    /\ agent_process' = [agent_process EXCEPT !.pc = "stop", !.event = FALSE]
    /\ UnchangedButProcess

\* sender.stop(); command_poller.stop(); terminal_manager.close_all(send_exit=False);
\* clear_state(config.state_path)
main_stop_workers ==
    /\ agent_process.pc = "stop"
    /\ agent_process' = [agent_process EXCEPT !.pc = "pair", !.state = 0,
                            !.workers = stop(@, {"heartbeat", "poller"})]
    /\ UnchangedButProcess

\* pair_until_success: the attempt that succeeds (a refused attempt sleeps and tries
\* again and changes nothing); save_state with the new node_id and pair_token
pair_until_success ==
    /\ agent_process.pc = "pair"
    /\ agent_process.pending
    /\ agent_process' = [agent_process EXCEPT !.pc = "restart", !.state = agent_process.issued + 1,
                            !.issued = @ + 1, !.accepted = agent_process.issued + 1, !.pending = FALSE]
    /\ UnchangedButProcess

\* start_ws_streamer(state) (which stops the streamer that is running),
\* start_command_poller(state), HeartbeatSender(...).start()
main_restart_workers ==
    /\ agent_process.pc = "restart"
    /\ agent_process' = [agent_process EXCEPT !.pc = "loop",
                            !.workers = [w \in WorkerIds |-> IF w[2] = agent_process.state THEN StartedWorker
                                                             ELSE stop(@, {"streamer"})[w]]]
    /\ UnchangedButProcess

\* a worker's loop, while not self._stop_event.is_set(): the request with
\* self.pair_token goes out (heartbeat, commands/next, the streamer's auth frame)
worker_send(w) ==
    /\ agent_process.workers[w].pc = "idle"
    /\ ~agent_process.workers[w].stop
    /\ agent_process' = [agent_process EXCEPT !.workers[w].pc = "request", !.late = LateAfterSend(w)]
    /\ UnchangedButProcess

\* the response: 401/403 when the master does not accept the token, and then
\* on_auth_failure sets auth_failure_event (heartbeat sender and command poller; the
\* streamer only retries)
worker_response(w) ==
    /\ agent_process.workers[w].pc = "request"
    /\ agent_process' = [agent_process EXCEPT !.workers[w].pc = "idle",
                            !.event = IF agent_process.accepted # w[2] /\ w[1] # "streamer" THEN TRUE ELSE @]
    /\ UnchangedButProcess

\* commands/next answered 200 with a command: execute_command(command, self._send_result)
worker_command(g) ==
    /\ agent_process.workers[<<"poller", g>>].pc = "request"
    /\ agent_process.accepted = g
    /\ agent_process' = [agent_process EXCEPT !.workers[<<"poller", g>>].pc = "executing"]
    /\ UnchangedButProcess

\* the command ends: _send_result posts to commands/result with self.node_id and
\* self.pair_token, with no look at _stop_event; 401/403 calls on_auth_failure
worker_result(g) ==
    /\ agent_process.workers[<<"poller", g>>].pc = "executing"
    /\ agent_process' = [agent_process EXCEPT !.workers[<<"poller", g>>].pc = "idle",
                            !.late = LateAfterSend(<<"poller", g>>),
                            !.event = IF agent_process.accepted # g THEN TRUE ELSE @]
    /\ UnchangedButProcess

\* the loop sees _stop_event and the thread ends
worker_exit(w) ==
    /\ agent_process.workers[w].pc = "idle"
    /\ agent_process.workers[w].stop
    /\ agent_process' = [agent_process EXCEPT !.workers[w].pc = "exited"]
    /\ UnchangedButProcess

NextProcess ==
    \/ master_revoke
    \/ main_auth_failure
    \/ main_stop_workers
    \/ pair_until_success
    \/ main_restart_workers
    \/ \E w \in WorkerIds : worker_send(w)
    \/ \E w \in WorkerIds : worker_response(w)
    \/ \E g \in Gens : worker_command(g)
    \/ \E g \in Gens : worker_result(g)
    \/ \E w \in WorkerIds : worker_exit(w)

ProcessSpec == InitPaired /\ [][NextProcess]_vars

\* ------------------------------------------------------------ agent terminal sessions
\* (agent/main.py TerminalSessionManager). Terminal events are handled one after the
\* other on the streamer's thread (agent/ws_stream.py 393-395); every session has a
\* reader thread. The master names every session with a new uuid.
UnchangedButTerminal == UNCHANGED <<storeVars, ret, resp, pendingVars, routerVars, agentVars, create_calls, enqueue_calls, delivered, log_stream, agent_process, pair_calls>>

TerminalFrame(session_id, type) == <<session_id, type>>

\* a close_session that leaves send_exit as it is
close_session_keep_exit(sessions, session_id, send_exit, displacing) ==
    IF session_id = Null \/ ~sessions[session_id].registered THEN sessions
    ELSE [sessions EXCEPT ![session_id].stop = TRUE, ![session_id].displaced = @ \/ displacing,
                          ![session_id].process = "exited"]

\* close_session: under the lock session["send_exit"] = send_exit, then
\* stop_event.set() and process.terminate(); a session that is not registered is
\* left alone. displacing tells the close of open_vm_session from the others
close_session(sessions, session_id, send_exit, displacing) ==
    IF session_id = Null \/ ~sessions[session_id].registered THEN sessions
    ELSE [sessions EXCEPT ![session_id].send_exit = send_exit, ![session_id].stop = TRUE,
                          ![session_id].displaced = @ \/ displacing,
                          ![session_id].process = "exited"]

\* open_vm_session up to the lookup: existing_session_id = _vm_domain_to_session.get(domain)
open_vm_session_lookup(domain_name) ==
    /\ terminal_manager.open.pc = "idle"
    /\ terminal_manager.next_session_id <= MaxOpens
    /\ terminal_manager' = [terminal_manager EXCEPT
            !.open = [pc |-> "close", session_id |-> terminal_manager.next_session_id, domain |-> domain_name,
                      existing |-> terminal_manager.vm_domain_to_session[domain_name]],
            !.next_session_id = @ + 1]
    /\ UnchangedButTerminal

\* if existing_session_id and existing_session_id != session_id:
\*     self.close_session(existing_session_id, send_exit=False)
open_vm_session_close ==
    /\ terminal_manager.open.pc = "close"
    /\ terminal_manager' = [terminal_manager EXCEPT
            !.open.pc = "domstate",
            !.sessions = IF terminal_manager.open.existing # terminal_manager.open.session_id
                         THEN close_session(@, terminal_manager.open.existing, FALSE, TRUE) ELSE @]
    /\ UnchangedButTerminal

\* virsh domstate fails or the domain is not running: terminal_error, no session
open_vm_session_refused ==
    /\ terminal_manager.open.pc = "domstate"
    /\ terminal_manager' = [terminal_manager EXCEPT
            !.open = NoOpen,
            !.frames = @ \cup {TerminalFrame(terminal_manager.open.session_id, "terminal_error")}]
    /\ UnchangedButTerminal

\* _open_process_session: close_session(session_id, send_exit=False), Popen, then under
\* the lock the session is registered and the domain mapped to it; reader_thread.start()
open_process_session ==
    /\ terminal_manager.open.pc = "domstate"
    /\ LET session_id == terminal_manager.open.session_id
           closed == close_session(terminal_manager.sessions, session_id, FALSE, FALSE)
       IN  terminal_manager' = [terminal_manager EXCEPT
                !.open = NoOpen,
                !.sessions = [closed EXCEPT ![session_id] =
                                [registered |-> TRUE, domain |-> terminal_manager.open.domain, send_exit |-> TRUE,
                                 stop |-> FALSE, process |-> "running", reader |-> "reading",
                                 latest_send_exit |-> TRUE, displaced |-> FALSE]],
                !.vm_domain_to_session[terminal_manager.open.domain] = session_id]
    /\ UnchangedButTerminal

\* the console process ends by itself
process_exits(session_id) ==
    /\ terminal_manager.sessions[session_id].process = "running"
    /\ terminal_manager' = [terminal_manager EXCEPT !.sessions[session_id].process = "exited"]
    /\ UnchangedButTerminal

\* _session_reader, while not stop_event.is_set(): bytes read, terminal_data sent
session_reader_data(session_id) ==
    /\ terminal_manager.sessions[session_id].reader = "reading"
    /\ ~terminal_manager.sessions[session_id].stop
    /\ terminal_manager.sessions[session_id].process = "running"
    /\ TerminalFrame(session_id, "terminal_data") \notin terminal_manager.frames
    /\ terminal_manager' = [terminal_manager EXCEPT !.frames = @ \cup {TerminalFrame(session_id, "terminal_data")}]
    /\ UnchangedButTerminal

\* the loop ends: stop_event is set, or process.poll() is not None
session_reader_end(session_id) ==
    /\ terminal_manager.sessions[session_id].reader = "reading"
    /\ terminal_manager.sessions[session_id].stop \/ terminal_manager.sessions[session_id].process = "exited"
    /\ terminal_manager' = [terminal_manager EXCEPT !.sessions[session_id].reader = "finally"]
    /\ UnchangedButTerminal

\* finally, under the lock: latest = _sessions.pop(session_id); the domain is unmapped
\* when it still maps to this session; send_exit = latest["send_exit"]
session_reader_pop(session_id) ==
    /\ terminal_manager.sessions[session_id].reader = "finally"
    /\ LET latest == terminal_manager.sessions[session_id]
       IN  terminal_manager' = [terminal_manager EXCEPT
                !.sessions[session_id].registered = FALSE,
                !.sessions[session_id].reader = "popped",
                !.sessions[session_id].process = "exited",
                !.sessions[session_id].latest_send_exit = IF latest.registered THEN latest.send_exit ELSE TRUE,
                !.vm_domain_to_session = IF latest.registered /\ @[latest.domain] = session_id
                                         THEN [@ EXCEPT ![latest.domain] = Null] ELSE @]
    /\ UnchangedButTerminal

\* if send_exit: self._send_exit(session_id, exit_code)
session_reader_exit(session_id) ==
    /\ terminal_manager.sessions[session_id].reader = "popped"
    /\ terminal_manager' = [terminal_manager EXCEPT
            !.sessions[session_id].reader = "done",
            !.frames = IF terminal_manager.sessions[session_id].latest_send_exit
                       THEN @ \cup {TerminalFrame(session_id, "terminal_exit")} ELSE @]
    /\ UnchangedButTerminal

NextTerminal ==
    \/ \E d \in Domains : open_vm_session_lookup(d)
    \/ open_vm_session_close
    \/ open_vm_session_refused
    \/ open_process_session
    \/ \E s \in OpenIds : process_exits(s)
    \/ \E s \in OpenIds : session_reader_data(s)
    \/ \E s \in OpenIds : session_reader_end(s)
    \/ \E s \in OpenIds : session_reader_pop(s)
    \/ \E s \in OpenIds : session_reader_exit(s)

TerminalSpec == InitPaired /\ [][NextTerminal]_vars

\* ------------------------------------------------------------ concurrent pair_node
\* pair_node up to the UPDATE: the SELECT of the row by pair_code and the test of its
\* state, read in autocommit mode (sqlite3 opens the transaction at the UPDATE). A
\* call that is rejected returns; one that found the row pending goes on.
pair_node_select(k, pair_code, hostname) ==
    /\ pair_calls[k].pc = "idle"
    /\ pair_calls[k].count < MaxPairCalls
    /\ LET normalized_code == normalize_pair_code(pair_code)
           hit == {n \in Rows(nodes) : nodes[n].pair_code = normalized_code}
           row == CHOOSE n \in hit : TRUE
           status == IF ~is_valid_pair_code(normalized_code) THEN "invalid_code"
                     ELSE IF hit = {} THEN "not_found"
                     ELSE IF ~pair_node_pending(nodes[row]) THEN "already_paired"
                     ELSE "ok"
       IN  IF status # "ok"
           THEN /\ ret' = Ret("pair_node", normalized_code, status, IF status = "already_paired" THEN row ELSE Null, Null)
                /\ pair_calls' = [pair_calls EXCEPT ![k].returned = [status |-> status, node |-> Null, token |-> Null], ![k].count = @ + 1]
           ELSE /\ pair_calls' = [pair_calls EXCEPT ![k].pc = "update", ![k].node = row, ![k].hostname = hostname, ![k].count = @ + 1]
                /\ UNCHANGED ret
    /\ UNCHANGED <<storeVars, resp, pendingVars, routerVars, agentVars, create_calls, enqueue_calls, delivered, log_stream, agent_process, terminal_manager>>

\* pair_node from the UPDATE ... WHERE id = ? to the commit and the return: the token
\* this call generated is written whatever the row's state has become
pair_node_commit(k) ==
    /\ pair_calls[k].pc = "update"
    /\ pair_node_update(pair_calls[k].node, pair_calls[k].hostname, next_token)
    /\ pair_calls' = [pair_calls EXCEPT ![k].pc = "idle", ![k].returned = [status |-> "paired", node |-> pair_calls[k].node, token |-> next_token]]
    /\ UNCHANGED <<resp, pendingVars, routerVars, agentVars, create_calls, enqueue_calls, delivered, log_stream, agent_process, terminal_manager>>

NextPair ==
    \/ \E code \in PairCodes : post_node(code)
    \/ \E k \in PairCallIds, code \in PairCodes \cup {"bad"} : pair_node_select(k, code, IF k = "first" THEN "h1" ELSE "h2")
    \/ \E k \in PairCallIds : pair_node_commit(k)

PairSpec == Init /\ [][NextPair]_vars

\* ------------------------------------------------------------ two nodes
\* a master whose database holds two paired nodes, each with its own agent
SecondNode == [PairedNode EXCEPT !.pair_code = "AAAAA1", !.pair_token = 2, !.agent_hostname = "h2"]

SecondNodeLogs == insert_node_log(insert_node_log(PairedNodeLogs, 3, 2, "info", "Node created and waiting for pairing", Meta(Null, "AAAAA1")), 4, 2, "info", "Node paired with agent", Meta(Null, "h2"))

InitTwoNodes ==
    /\ nodes = (1 :> PairedNode) @@ (2 :> SecondNode)
    /\ node_vms = <<>>
    /\ vm_operations = <<>>
    /\ node_logs = SecondNodeLogs
    /\ log_seq = 5
    /\ next_node = 3
    /\ next_vm = 1
    /\ next_op = 1
    /\ next_token = 3
    /\ clock = 5
    /\ InitMemory
    /\ InitAgent

\* the frames the agent of a node sends once authenticated: terminal frames naming a
\* session, command results naming an operation
NodeFrame(type, node_id, session_id, operation_id) == [type |-> type, node_id |-> node_id, pair_token |-> AgentToken(node_id), session_id |-> session_id, operation_id |-> operation_id]
TerminalFrames == {NodeFrame(type, Null, s, Null) : type \in {"terminal_data", "terminal_exit", "terminal_error"}, s \in SessionIds \cup {MaxSessions + 1}}

\* the agents of two nodes on /ws/agent beside a terminal session of node 1
NextSessions ==
    \/ ws_agent_connect
    \/ \E c \in ConnIds : ws_agent_step(c)
    \/ \E c \in ConnIds, n \in NodeIds : ws_agent_receive_auth(c, NodeFrame("auth", n, Null, Null))
    \/ \E c \in ConnIds, m \in TerminalFrames : ws_agent_receive_frame(c, m)
    \/ \E c \in ConnIds : ws_agent_closed(c)
    \/ ws_node_terminal_open(1)

SessionsSpec == InitTwoNodes /\ [][NextSessions]_vars

\* the results the agents of two nodes deliver for the operation of node 1 and for
\* one that does not exist: both over commands/result, the agent of node 2 also as
\* command_result frames on its one connection
ResultCommandTypes == {"vm_create", "agent_update"}
ResultOps == {1, MaxOps}
OwnerPayloads == {[operation_id |-> o, status |-> st, message |-> "msg", power_state |-> NULL] : o \in ResultOps, st \in {"failed"}}
ResultFrames == {NodeFrame("command_result", Null, Null, o) : o \in ResultOps}

NextOwner ==
    \/ post_node_vm(1, CHOOSE p \in VmPayloads : p.valid /\ p.name = "db-1" /\ p.image_id \in VmImages)
    \/ \E n \in NodeIds, ct \in ResultCommandTypes, p \in OwnerPayloads : post_agent_command_result_typed(n, AgentToken(n), ct, p)
    \/ next_conn = 1 /\ ws_agent_connect
    \/ \E c \in ConnIds : ws_agent_loop(c) \/ ws_agent_drain(c) \/ ws_agent_receive_timeout(c) \/ ws_agent_authenticated(c)
    \/ \E c \in ConnIds : ws_agent_finally(c) \/ ws_agent_clear(c) \/ ws_agent_close_sessions(c)
    \/ \E c \in ConnIds : ws_agent_receive_auth(c, NodeFrame("auth", 2, Null, Null))
    \/ \E c \in ConnIds, m \in ResultFrames : ws_agent_receive_frame(c, m)
    \/ \E c \in ConnIds : ws_agent_closed(c)

OwnerSpec == InitTwoNodes /\ [][NextOwner]_vars

\* request threads of POST /api/nodes/<node_id>/vms inside create_vm_request at the
\* same time, and the agent's results
NextCreate ==
    \/ \E k \in CallIds, p \in VmPayloads : create_vm_select(k, 1, p)
    \/ \E k \in CallIds : create_vm_commit(k)
    \/ \E p \in SucceededPayloads : post_agent_command_result(1, AgentToken(1), "", p)

CreateSpec == InitPaired /\ [][NextCreate]_vars

\* CommandPoller._run: a poller thread long-polls the Master and enters
\* execute_command with the command it is handed (a stopped poller may still be
\* executing when its successor starts polling)
command_poller_run(t) ==
    /\ agent_threads[t].pc = "idle"
    /\ commands_next_request(AgentNode, AgentToken(AgentNode), "")
    /\ agent_threads' = IF resp'.code = 200 THEN [agent_threads EXCEPT ![t] = [pc |-> "is_set", command_type |-> ret'.val.command_type, command_id |-> ret'.val.command_id, status |-> NULL]] ELSE agent_threads
    /\ UnchangedEvents
    /\ UNCHANGED callVars

\* the last time at which a queued operation is still old enough for a sweep
\* before the clock bound
QueueUntil == MaxClock - StaleAfter - 1

\* a step of a thread of the agent; a result is stored while the clock is below its bound
flow_step(t) == execute_command_step(t) /\ (clock' = clock \/ clock < MaxClock)

\* the Master and one agent: operations are queued for the VM, the agent polls,
\* executes and reports (or fails to), the UI lists
NextFlow ==
    \/ \E a \in VmActions : clock <= QueueUntil /\ queue_vm_action_route(1, 1, a)
    \/ \E t \in ThreadIds : command_poller_run(t)
    \/ \E t \in ThreadIds : flow_step(t)
    \/ get_nodes

\* the UI keeps listing and a thread of the agent that can take a step takes it;
\* nothing is assumed of the polling: the agent may never connect
FlowSpec == InitVm /\ [][NextFlow]_vars /\ WF_vars(get_nodes) /\ \A t \in ThreadIds : WF_vars(flow_step(t))

\* ------------------------------------------------------------ properties
\* C1: the status of an operation only moves forward: a running operation never
\* goes back to queued, and once an operation is succeeded or failed nothing
\* changes its status, error, result or ended_at.
C1_StatusMonotonic ==
    [][\A o \in Rows(vm_operations) \cap Rows(vm_operations') :
        /\ (vm_operations[o].status = "running" => vm_operations'[o].status # "queued")
        /\ (vm_operations[o].status \in Terminal =>
              /\ vm_operations'[o].status = vm_operations[o].status
              /\ vm_operations'[o].error = vm_operations[o].error
              /\ vm_operations'[o].result = vm_operations[o].result
              /\ vm_operations'[o].ended_at = vm_operations[o].ended_at)]_vars

\* C2: the registry holds at most one connection per node; when a handler's auth
\* activates its connection, the value returned is the id registered before (or
\* none) and right afterwards is_current is true for the new id and no other.
C2_OneConnectionPerNode ==
    [][/\ \A k \in NodeIds : Cardinality({x \in ConnIds : is_current_agent_connection(k, x)}) <= 1
       /\ \A c \in ConnIds, n \in NodeIds :
            (conn[c].pc = "receive" /\ conn'[c].pc = "activated" /\ conn'[c].node_id = n) =>
                /\ conn'[c].previous_connection_id = Get(ACTIVE_AGENT_CONNECTIONS, n)
                /\ \A x \in ConnIds : is_current_agent_connection(n, x)' <=> x = c]_vars

\* a handler has replaced another one and holds the id it replaced
C2_Witness == \E c \in ConnIds : conn[c].pc = "activated" /\ conn[c].previous_connection_id \notin {Null, c} /\ is_current_agent_connection(conn[c].node_id, c)

\* C3: a handler sends a message it took from AGENT_WS_OUTBOUND_MESSAGES only
\* while its connection is the current one of the node.
C3_SendOnlyWhenCurrent ==
    [][\A c \in ConnIds : (conn[c].pc = "send" /\ conn'[c].sent # conn[c].sent) => is_current_agent_connection(conn[c].node_id, c)]_vars

\* connection a was the current one when another handler activated
Superseded(a) == conn[a].node_id # Null /\ \E b \in ConnIds : b # a /\ conn[b].previous_connection_id = a

SentSuperseded(a) == \E i \in DOMAIN conn[a].sent : conn[a].sent[i] = ErrorFrame("superseded_connection")

ReplacedLogged(a) == \E i \in DOMAIN node_logs : node_logs[i].message = "Agent websocket connection replaced an existing session" /\ node_logs[i].meta.ref = a /\ node_logs[i].node_id = conn[a].node_id

\* C4: once a connection is superseded its handler eventually exits, having sent
\* superseded_connection (unless its websocket failed first), and the log row
\* "Agent websocket connection replaced an existing session" is appended; at the
\* top of its loop a superseded handler goes nowhere but to its exit.
C4_SupersededExits ==
    /\ \A a \in ConnIds : Superseded(a) ~> (conn[a].pc = "done" /\ (SentSuperseded(a) \/ conn[a].broken) /\ ReplacedLogged(a))
    /\ [][\A a \in ConnIds : (Superseded(a) /\ conn[a].pc = "loop" /\ conn'[a].pc # "loop") => (conn'[a].pc = "finally" /\ SentSuperseded(a)')]_vars

\* a superseded handler whose websocket is intact has sent the frame and exited
C4_Witness == \E a \in ConnIds : Superseded(a) /\ conn[a].pc = "done" /\ SentSuperseded(a) /\ ~conn[a].broken /\ ReplacedLogged(a)

\* C5: when a connection is superseded, every terminal session registered for the
\* node gets a terminal_error on its inbound queue (unless its UI ends it first).
C5_SupersessionClosesSessions ==
    \A b \in ConnIds, s \in SessionIds :
        (conn[b].pc = "activated" /\ conn[b].previous_connection_id \notin {Null, b} /\ s \in DOMAIN TERMINAL_SESSIONS /\ TERMINAL_SESSIONS[s].node_id = conn[b].node_id)
            ~> (s \notin DOMAIN TERMINAL_SESSIONS \/ \E i \in DOMAIN TERMINAL_SESSIONS[s].queue : TERMINAL_SESSIONS[s].queue[i].type = "terminal_error")

\* the frames of session s a handler has sent to its agent, in the order sent
SessionFrames(c, s) == SelectSeq(conn[c].sent, LAMBDA f : f.type \in OutboundTypes /\ f.session_id = s)

\* how many frames of one type the agents have been sent for session s, over all connections
CountSent(s, type) == Cardinality(UNION {{<<c, i>> : i \in {k \in DOMAIN conn[c].sent : conn[c].sent[k].type = type /\ conn[c].sent[k].session_id = s}} : c \in ConnIds})

\* C6: the frames sent to the agent for a session start with one open, input and
\* resize frames come after it in the order the UI sent them, there is at most
\* one close and it comes last, and no input, resize or close is sent for a
\* session whose open was not sent.
C6_TerminalFrameOrder ==
    \A s \in SessionIds :
        /\ CountSent(s, "terminal_open") <= 1
        /\ CountSent(s, "terminal_close") <= 1
        /\ \A c \in ConnIds :
            /\ (SessionFrames(c, s) # <<>> => CountSent(s, "terminal_open") = 1)
            /\ \A i, j \in DOMAIN SessionFrames(c, s) :
                i < j => /\ SessionFrames(c, s)[j].type # "terminal_open"
                         /\ SessionFrames(c, s)[i].type # "terminal_close"
                         /\ (SessionFrames(c, s)[j].type # "terminal_close" => SessionFrames(c, s)[i].data < SessionFrames(c, s)[j].data)

\* C7: per node the commands leave PENDING_AGENT_COMMANDS in the order in which
\* their enqueues completed, and a node has no entry once its list is empty.
C7_PendingFifo ==
    \A n \in NodeIds :
        /\ deq_hist[n] \o GetList(PENDING_AGENT_COMMANDS, n) = enq_hist[n]
        /\ (n \in DOMAIN PENDING_AGENT_COMMANDS => PENDING_AGENT_COMMANDS[n] # <<>>)

\* two commands were dequeued, their enqueues having completed in the opposite
\* order of their Store calls, and the node's entry is gone
C7_Witness == \E n \in NodeIds : Len(deq_hist[n]) >= 2 /\ deq_hist[n][1].command_id > deq_hist[n][2].command_id /\ n \notin DOMAIN PENDING_AGENT_COMMANDS

RECURSIVE IsSubseq(_, _)
IsSubseq(a, b) == IF a = <<>> THEN TRUE ELSE IF b = <<>> THEN FALSE ELSE IF Head(a) = Head(b) THEN IsSubseq(Tail(a), Tail(b)) ELSE IsSubseq(a, Tail(b))

\* the messages a handler took from AGENT_WS_OUTBOUND_MESSAGES and sent
OutboundSent(c) == SelectSeq(conn[c].sent, LAMBDA f : f.type \in OutboundTypes)

\* C8: the messages of AGENT_WS_OUTBOUND_MESSAGES sent over a connection are sent
\* in the order in which they were enqueued for the node.
C8_SentInEnqueueOrder == \A c \in ConnIds : conn[c].node_id # Null => IsSubseq(OutboundSent(c), ws_enq_hist[conn[c].node_id])

\* a connection has sent two messages and one enqueued before them was dropped
C8_Witness == \E c \in ConnIds : conn[c].node_id # Null /\ Len(OutboundSent(c)) >= 2 /\ is_current_agent_connection(conn[c].node_id, c) /\ OutboundSent(c)[1] # ws_enq_hist[conn[c].node_id][1]

\* C9: a node is paired exactly when it has a pair_token, and no two nodes share
\* a pair_code or a pair_token.
C9_PairedIffToken ==
    \A n \in Rows(nodes) :
        /\ (nodes[n].state = NODE_STATE_PAIRED <=> nodes[n].pair_token # Null)
        /\ \A m \in Rows(nodes) \ {n} :
            /\ nodes[m].pair_code # nodes[n].pair_code
            /\ (nodes[n].pair_token # Null => nodes[m].pair_token # nodes[n].pair_token)

\* two nodes are paired, with different tokens
C9_Witness == \E n, m \in Rows(nodes) : n # m /\ nodes[n].state = NODE_STATE_PAIRED /\ nodes[m].state = NODE_STATE_PAIRED /\ nodes[n].pair_token # nodes[m].pair_token

AppliedResult(op_type, status) ==
    /\ ret'.fn = "apply_vm_command_result"
    /\ ret'.status # "not_found"
    /\ ret'.val.status = status
    /\ ret'.arg \in Rows(vm_operations)
    /\ vm_operations[ret'.arg].operation_type = op_type

\* C11: once a delete was queued for a VM and its succeeded result is applied, the
\* VM row no longer exists (so a later delete is answered vm_not_found).
C11_DeleteRemovesVm ==
    [][AppliedResult("delete", "succeeded") => vm_operations[ret'.arg].vm_id \notin Rows(node_vms')]_vars

\* C12: a succeeded vm_create result reporting power state running leaves the VM
\* running and the operation succeeded; applying the same result once more leaves
\* the operation (status, started_at, ended_at, error, result) and the VM row as
\* they were.
C12_ResultIdempotent ==
    [][(AppliedResult("create", "succeeded") /\ ret'.val.power_state = "running") =>
        LET o == ret'.arg
            v == vm_operations[o].vm_id
        IN  /\ vm_operations'[o].status = "succeeded"
            /\ v \in Rows(node_vms) => node_vms'[v].state = "running"
            /\ (vm_operations[o].status = "succeeded" /\ vm_operations[o].result = "running") =>
                  /\ vm_operations'[o].status = vm_operations[o].status
                  /\ vm_operations'[o].started_at = vm_operations[o].started_at
                  /\ vm_operations'[o].ended_at = vm_operations[o].ended_at
                  /\ vm_operations'[o].error = vm_operations[o].error
                  /\ vm_operations'[o].result = vm_operations[o].result
                  /\ node_vms' = node_vms]_vars

\* C13: every operation in a terminal status has started_at and ended_at set,
\* whether a result or one of the two sweeps made it terminal.
C13_TerminalHasTimes ==
    \A o \in Rows(vm_operations) :
        vm_operations[o].status \in Terminal =>
            /\ vm_operations[o].started_at # Null
            /\ vm_operations[o].ended_at # Null

\* one operation ended by a result, another failed by a sweep before any running report
C13_Witness ==
    \E o, q \in Rows(vm_operations) :
        /\ vm_operations[o].status = "succeeded"
        /\ vm_operations[q].status = "failed"
        /\ vm_operations[q].error \in {RestartReason, StaleReason}
        /\ vm_operations[q].started_at = vm_operations[q].ended_at

\* the operations of a VM, and those of them in a terminal status
VmOperations(v) == {o \in Rows(vm_operations) : vm_operations[o].vm_id = v}

TerminalOperations(v) == {o \in VmOperations(v) : vm_operations[o].status \in Terminal}

\* the terminal operation of a VM that ended last
LatestTerminal(v) == CHOOSE o \in TerminalOperations(v) : \A q \in TerminalOperations(v) : vm_operations[q].ended_at <= vm_operations[o].ended_at

\* the VM has a terminal operation and none that is queued or running
Settled(v) == TerminalOperations(v) # {} /\ TerminalOperations(v) = VmOperations(v)

ActionReachesVm(n, v) ==
    /\ n \in Rows(nodes)
    /\ nodes[n].state = NODE_STATE_PAIRED
    /\ node_vm_capability_ready(nodes[n])
    /\ v \in Rows(node_vms)
    /\ node_vms[v].node_id = n

\* the step is a rejection: invalid_state, HTTP 409, no Operation row, no command
\* enqueued, the VM row and the rest of the Store as before
RejectedUnchanged ==
    /\ ret'.status = "invalid_state"
    /\ resp' = Resp("queue_vm_action_route", 409)
    /\ UNCHANGED <<storeVars, pendingVars>>

C16_PasswordNotPersisted ==
    /\ \A o \in Rows(vm_operations) :
          /\ vm_operations[o].request # GuestPassword
          /\ vm_operations[o].result # GuestPassword
    /\ \A i \in DOMAIN node_logs :
          /\ node_logs[i].message # GuestPassword
          /\ node_logs[i].meta.text # GuestPassword

\* C17: for an existing node, a since_id s and a limit L clamped to [1, LogsLimitMax],
\* list_node_logs returns exactly the first min(L, count) entries of the node's log
\* rows with id > s in ascending id order, and the next_since_id of the pull
\* endpoint is the id of the last entry returned, or s when nothing is returned.
C17_LogsPrefix ==
    (ret.fn = "list_node_logs" /\ ret.status = "ok" /\ ret.val.since_id # NoSince) =>
        LET items == ret.val.items
            s == ret.val.since_id
            L == IF ret.val.limit > LogsLimitMax THEN LogsLimitMax ELSE IF ret.val.limit < 1 THEN 1 ELSE ret.val.limit
            matching == {i \in DOMAIN node_logs : node_logs[i].node_id = ret.arg /\ node_logs[i].id > s}
            count == Cardinality(matching)
        IN  /\ Len(items) = (IF L < count THEN L ELSE count)
            /\ \A k \in DOMAIN items : \E i \in matching : node_logs[i] = items[k]
            /\ \A k \in DOMAIN items : k > 1 => items[k - 1].id < items[k].id
            /\ \A k \in DOMAIN items : \A i \in matching : node_logs[i].id < items[k].id => \E j \in 1..(k - 1) : items[j] = node_logs[i]
            /\ ret.val.next_since_id = (IF items = <<>> THEN s ELSE items[Len(items)].id)

\* a query the limit cuts short: more rows match than are returned, and some row
\* is older than since_id
C17_Witness ==
    /\ ret.fn = "list_node_logs"
    /\ ret.status = "ok"
    /\ ret.val.since_id > 0
    /\ ret.val.limit > 1
    /\ Len(ret.val.items) = ret.val.limit
    /\ Cardinality({i \in DOMAIN node_logs : node_logs[i].node_id = ret.arg /\ node_logs[i].id > ret.val.since_id}) > Len(ret.val.items)
    /\ ret.val.next_since_id = ret.val.items[Len(ret.val.items)].id

\* the token was issued by a pairing and no node holds it any more: its node was
\* deleted
Revoked(token) ==
    /\ token \in 1..(next_token - 1)
    /\ \A n \in Rows(nodes) : nodes[n].pair_token # token

\* C18: a heartbeat presenting the token of a deleted node is answered 401 and
\* changes nothing in the Store.
C18_RevokedTokenRejected ==
    [][(ret'.fn = "record_heartbeat" /\ Revoked(ret'.arg)) =>
        /\ resp' = Resp("post_heartbeat", 401)
        /\ UNCHANGED storeVars]_vars

\* the heartbeat of a deleted node's agent was just refused, while another node is
\* paired and holds a token of its own
C18_Witness ==
    /\ resp = Resp("post_heartbeat", 401)
    /\ ret.fn = "record_heartbeat"
    /\ ret.status = "invalid_token"
    /\ Revoked(ret.arg)
    /\ \E n \in Rows(nodes) : nodes[n].pair_token # Null /\ nodes[n].last_heartbeat_at # Null

\* the bearer token is the pair_token stored for the node
TokenOfNode(n, t) == n \in Rows(nodes) /\ t # Null /\ nodes[n].pair_token = t

\* the node has a recorded agent_hostname, the header is supplied and the two differ
\* even when case is ignored
HostnameMismatch(n, h) ==
    /\ n \in Rows(nodes)
    /\ nodes[n].agent_hostname # NULL
    /\ h # ""
    /\ Lower(nodes[n].agent_hostname) # Lower(h)

\* C19: commands/next dequeues and commands/result applies for node N only when the
\* bearer token is N's pair_token and the X-Agent-Hostname header, if supplied and
\* if N has a recorded agent_hostname, matches it case-insensitively; otherwise the
\* pending queue and the Store stay as they are, and a hostname mismatch is
\* answered 403.
C19_AgentEndpointsAuthorized ==
    [][resp'.route \in {"post_agent_next_command", "post_agent_command_result"} =>
        LET untouched == UNCHANGED <<storeVars, pendingVars>>
        IN  \/ untouched /\ resp'.code = 403
            \/ \A n \in NodeIds, t \in TokenInputs, h \in HeaderHostnames :
                  \/ TokenOfNode(n, t) /\ ~HostnameMismatch(n, h)
                  \/ untouched /\ resp'.code = 401 /\ ~TokenOfNode(n, t)
                  \/ ~(\/ post_agent_next_command(n, t, h)
                       \/ \E p \in SucceededPayloads : post_agent_command_result(n, t, h, p))]_vars

\* a long-poll was refused with 403 while a command waits for node 1 and a second
\* node holds a token of its own
C19_Witness ==
    /\ resp = Resp("post_agent_next_command", 403)
    /\ 1 \in DOMAIN PENDING_AGENT_COMMANDS
    /\ \E n \in Rows(nodes) : n # 1 /\ nodes[n].pair_token # Null

\* C20: the busy reply of an agent that has another VM command in progress does
\* not move the operation forward: after the Master has processed it, the status
\* of the operation and the state of its VM are what they were.
C20_BusyLeavesOperation ==
    [][(/\ ret'.fn = "apply_vm_command_result"
        /\ ret'.status # "not_found"
        /\ ret'.val.status = "busy"
        /\ ret'.arg \in Rows(vm_operations))
       => LET o == ret'.arg
              v == vm_operations[o].vm_id
          IN  /\ vm_operations'[o].status = vm_operations[o].status
              /\ v \in Rows(node_vms) => node_vms'[v].state = node_vms[v].state]_vars

\* the threads that are executing a command of one of the given types
Executing(command_types) == {t \in ThreadIds : agent_threads[t].pc = "execute" /\ agent_threads[t].command_type \in command_types}

\* C21: on one agent at most one VM command is executing at any instant, likewise
\* at most one container command and at most one terminal_exec, whatever the
\* interleaving of the poller thread and the handler threads.
C21_OneCommandPerType ==
    \A cts \in {VmCommandTypes, ContainerCommandTypes, {"terminal_exec"}} : Cardinality(Executing(cts)) <= 1

\* the operation exists with one of the given statuses
OperationIs(o, statuses) == o \in Rows(vm_operations) /\ vm_operations[o].status \in statuses

\* every operation that is queued is eventually taken up or swept
QueuedLeadsOn == \A o \in OpIds : OperationIs(o, {"queued"}) ~> OperationIs(o, {"running", "succeeded", "failed"})

\* C22: every operation that has been queued eventually reaches a terminal status
\* (succeeded or failed) without a Master restart.
C22_QueuedEventuallyTerminal == \A o \in OpIds : OperationIs(o, {"queued"}) ~> OperationIs(o, {"succeeded", "failed"})

\* C23: after fail_unfinished_vm_operations at Master startup no operation is queued
\* or running: every operation that was is failed with the given reason and its VM
\* is in error with last_error = reason; the operations that were terminal are
\* unchanged.
C23_StartupSweep ==
    [][(resp'.route = "startup" /\ master_restart) =>
        /\ Rows(vm_operations') = Rows(vm_operations)
        /\ \A o \in Rows(vm_operations) :
            IF vm_operations[o].status \in {"queued", "running"}
            THEN /\ vm_operations'[o].status = "failed"
                 /\ vm_operations'[o].error = RestartReason
                 /\ vm_operations[o].vm_id \in Rows(node_vms) =>
                        /\ node_vms'[vm_operations[o].vm_id].state = "error"
                        /\ node_vms'[vm_operations[o].vm_id].last_error = RestartReason
            ELSE vm_operations'[o] = vm_operations[o]]_vars

\* a restart has failed an unfinished operation beside one that had ended
C23_Witness ==
    /\ resp.route = "startup"
    /\ \E o \in Rows(vm_operations) :
        /\ vm_operations[o].status = "failed"
        /\ vm_operations[o].error = RestartReason
        /\ vm_operations[o].vm_id \in Rows(node_vms)
        /\ node_vms[vm_operations[o].vm_id].last_error = RestartReason
    /\ \E o \in Rows(vm_operations) : vm_operations[o].status = "succeeded"

\* C24: when an authenticated agent connection exits, the active-connection entry of
\* its node is removed iff that connection is still the current one; the exit of a
\* superseded connection leaves the registry as it was, the newer entry included.
C24_ExitRemovesOwnEntry ==
    [][\A c \in ConnIds : (conn[c].pc = "finally" /\ conn[c].node_id # Null /\ ws_agent_finally(c)) =>
        LET n == conn[c].node_id
            removed == n \in DOMAIN ACTIVE_AGENT_CONNECTIONS /\ n \notin DOMAIN ACTIVE_AGENT_CONNECTIONS'
        IN  /\ removed <=> Get(ACTIVE_AGENT_CONNECTIONS, n) = c
            /\ Get(ACTIVE_AGENT_CONNECTIONS, n) # c => ACTIVE_AGENT_CONNECTIONS' = ACTIVE_AGENT_CONNECTIONS
            /\ \A m \in NodeIds \ {n} : Get(ACTIVE_AGENT_CONNECTIONS', m) = Get(ACTIVE_AGENT_CONNECTIONS, m)]_vars

\* a superseded connection has exited and the entry of its node is the newer connection
C24_Witness ==
    \E c, d \in ConnIds :
        /\ c # d
        /\ conn[c].pc = "done"
        /\ conn[c].node_id # Null
        /\ Get(ACTIVE_AGENT_CONNECTIONS, conn[c].node_id) = d

\* the last event on the inbound queue of session s is the disconnect error
LastIsDisconnectError(sessions, s) ==
    /\ sessions[s].queue # <<>>
    /\ sessions[s].queue[Len(sessions[s].queue)] = Frame("terminal_error", s, Null, "Agent websocket disconnected")

UntouchedBeforeAuth == UNCHANGED <<storeVars, ACTIVE_AGENT_CONNECTIONS, AGENT_WS_OUTBOUND_MESSAGES, TERMINAL_SESSIONS>>

\* handler c has answered with the error and has left its loop
Refused(c, error) ==
    /\ conn'[c].sent = Append(conn[c].sent, ErrorFrame(error))
    /\ conn'[c].pc = "finally"
    /\ conn'[c].node_id = Null

\* the frames of the claim: a type other than auth and subscribe_logs, or an auth
\* frame whose token is not the node's
RefusedFrames == {m \in FirstFrames : m.type # "subscribe_logs" /\ ~(m.type = "auth" /\ is_valid_node_token(m.node_id, m.pair_token))}

\* C26 as stated: on a handler that is not authenticated every first frame other
\* than auth and subscribe_logs, and every auth frame whose token does not match,
\* gets an error frame, ends the connection and leaves the registry and the Store
\* unchanged.
C26_FirstFrameAsStated ==
    [][\A c \in ConnIds, m \in RefusedFrames : (conn[c].pc = "receive" /\ conn[c].node_id = Null /\ ws_agent_receive_auth(c, m)) =>
        /\ \E error \in {"auth_required", "unauthorized", "invalid_auth_payload", "invalid_json", "invalid_payload"} : Refused(c, error)
        /\ UntouchedBeforeAuth]_vars

\* C26: no step of a handler that is not authenticated, other than the matching auth
\* frame itself, touches the Store, the registry, the outbound buffer or a terminal
\* session; a first frame of a type other than auth and subscribe_logs is refused
\* with auth_required, an auth frame without a token with invalid_auth_payload and
\* one with a token that is not the node's with unauthorized, each ending the
\* connection; a message that is not a JSON object is answered with an error and
\* the handler goes on waiting, still not authenticated.
C26_NothingBeforeAuth ==
    [][\A c \in ConnIds :
        /\ (conn[c].node_id = Null /\ conn'[c] # conn[c] /\ conn'[c].node_id = Null) => UntouchedBeforeAuth
        /\ \A m \in RefusedFrames : (conn[c].pc = "receive" /\ conn[c].node_id = Null /\ ws_agent_receive_auth(c, m)) =>
                IF m.type \in {"invalid_json", "invalid_payload"}
                THEN /\ conn'[c].sent = Append(conn[c].sent, ErrorFrame(m.type))
                     /\ conn'[c].pc = "loop"
                     /\ conn'[c].node_id = Null
                ELSE Refused(c, IF m.type # "auth" THEN "auth_required" ELSE IF m.pair_token = Null THEN "invalid_auth_payload" ELSE "unauthorized")]_vars

\* a handler was refused for a token that is not the node's while a frame for the
\* agent was waiting in the buffer and another handler of the node was connected
C26_Witness ==
    \E c \in ConnIds :
        /\ conn[c].pc = "done"
        /\ conn[c].node_id = Null
        /\ conn[c].sent = <<ErrorFrame("unauthorized")>>
        /\ 1 \in DOMAIN AGENT_WS_OUTBOUND_MESSAGES
        /\ 1 \in DOMAIN ACTIVE_AGENT_CONNECTIONS

\* C27: no two VM rows of the same node have the same name, also when two
\* create_vm_request calls for the same node and name interleave.
C27_UniqueVmNames ==
    \A v, w \in Rows(node_vms) : (v # w /\ node_vms[v].node_id = node_vms[w].node_id) => node_vms[v].name # node_vms[w].name

\* C28: after record_heartbeat has normalised a usage payload, every stored percent
\* field lies in [0, 100] and every stored byte count is at least 0, whatever the
\* numbers of the payload.
C28_MetricsInRange ==
    \A n \in Rows(nodes) : \A f \in DOMAIN nodes[n].last_metrics :
        /\ f \in PercentFields => (0 <= nodes[n].last_metrics[f] /\ nodes[n].last_metrics[f] <= Hundred)
        /\ f \in ByteFields => 0 <= nodes[n].last_metrics[f]

\* a heartbeat with a negative percent, a percent above 100 and a negative byte
\* count has been stored
C28_Witness ==
    /\ ret.fn = "record_heartbeat"
    /\ ret.status = "ok"
    /\ ret.val["cpu_percent"].kind = "num" /\ ret.val["cpu_percent"].n < 0
    /\ ret.val["storage_percent"].kind = "num" /\ ret.val["storage_percent"].n > 100 * Thousandths
    /\ ret.val["memory_used_bytes"].kind = "num" /\ ret.val["memory_used_bytes"].n < 0
    /\ nodes[ret.node].last_metrics = ("cpu_percent" :> 0) @@ ("storage_percent" :> Hundred) @@ ("memory_used_bytes" :> 0)

\* sequence a is the end of sequence b
IsSuffix(a, b) == Len(a) <= Len(b) /\ a = SubSeq(b, Len(b) - Len(a) + 1, Len(b))

\* C29: the ws_outbound buffer of a node never holds more than its cap (2000
\* messages) after an enqueue; when the cap is passed the oldest messages are
\* dropped, and what remains, the new message included, is in the order of the
\* enqueues.
C29_OutboundBounded ==
    /\ \A n \in NodeIds : Len(GetList(AGENT_WS_OUTBOUND_MESSAGES, n)) <= WideCap
    /\ [][\A n \in NodeIds : ws_enq_hist'[n] # ws_enq_hist[n] =>
            LET before == GetList(AGENT_WS_OUTBOUND_MESSAGES, n)
                after == GetList(AGENT_WS_OUTBOUND_MESSAGES', n)
                payload == ws_enq_hist'[n][Len(ws_enq_hist'[n])]
            IN  /\ Len(after) <= WideCap
                /\ IsSuffix(after, Append(before, payload))
                /\ after # <<>> /\ after[Len(after)] = payload
                /\ IF Len(before) < WideCap THEN Len(after) = Len(before) + 1 ELSE Len(after) = WideKeep]_vars

\* an enqueue has passed the cap: the newest messages are left, in order
C29_Witness ==
    \E n \in NodeIds :
        /\ Len(ws_enq_hist[n]) = WideCap + 1
        /\ GetList(AGENT_WS_OUTBOUND_MESSAGES, n) = SubSeq(ws_enq_hist[n], WideCap, WideCap + 1)

\* the inbound queue of every terminal session is within its bound
QueueBounded == \A s \in DOMAIN TERMINAL_SESSIONS : Len(TERMINAL_SESSIONS[s].queue) <= TerminalQueueMax

\* C30: the inbound queue of a terminal session never exceeds its bound (500), and
\* an enqueue onto a full queue discards the oldest event and appends the new one:
\* the new event is never the one lost, also when the agent handler and the
\* disconnect cleanup enqueue at the same time.  Every enqueue for a registered
\* session that has returned has queued its event (it returned True).
C30_NewestNeverLost ==
    /\ QueueBounded
    /\ \A e \in EnqueueIds : (enqueue_calls[e].pc = "idle" /\ enqueue_calls[e].session_id # Null) => enqueue_calls[e].returned

\* the rows of a table that a step has inserted
Inserted(before, after) == Rows(after) \ Rows(before)

\* the statuses create_vm_request rejects a request with
CreateRejections == {"not_found", "node_not_paired", "capability_not_ready", "image_not_found", "invalid_payload", "conflict"}

\* C31: create_vm_request succeeds only when the node exists, is paired and has
\* capabilities.vm.ready true; on success it inserts exactly one VM row in state
\* creating and exactly one queued create operation whose id is the command_id and
\* the operation_id of the returned command; on every rejection it inserts no VM,
\* no operation and no log entry.
C31_CreateAdmission ==
    [][\A n \in NodeIds, p \in VmPayloads :
        (ret'.fn = "create_vm_request" /\ post_node_vm(n, p)) =>
            IF ret'.status = "ok"
            THEN /\ n \in Rows(nodes)
                 /\ nodes[n].state = NODE_STATE_PAIRED
                 /\ nodes[n].capabilities = "ready"
                 /\ \E v \in VmIds, o \in OpIds :
                        /\ Inserted(node_vms, node_vms') = {v}
                        /\ Inserted(vm_operations, vm_operations') = {o}
                        /\ node_vms'[v].node_id = n /\ node_vms'[v].state = "creating" /\ node_vms'[v].name = p.name
                        /\ vm_operations'[o].node_id = n /\ vm_operations'[o].vm_id = v
                        /\ vm_operations'[o].operation_type = "create" /\ vm_operations'[o].status = "queued"
                        /\ ret'.val.command_id = o /\ ret'.val.operation_id = o /\ ret'.val.vm_id = v
                        /\ \A w \in Rows(node_vms) : node_vms'[w] = node_vms[w]
                        /\ \A q \in Rows(vm_operations) : vm_operations'[q] = vm_operations[q]
            ELSE /\ ret'.status \in CreateRejections
                 /\ node_vms' = node_vms
                 /\ vm_operations' = vm_operations
                 /\ node_logs' = node_logs]_vars

\* a VM was created on a ready node while another node, paired but not ready, was
\* refused
C31_Witness ==
    /\ ret.fn = "create_vm_request"
    /\ ret.status = "ok"
    /\ \E n \in Rows(nodes) : nodes[n].state = NODE_STATE_PAIRED /\ nodes[n].capabilities # "ready"
    /\ \E v \in Rows(node_vms), o \in Rows(vm_operations) : node_vms[v].state = "creating" /\ vm_operations[o].vm_id = v /\ vm_operations[o].status = "queued" /\ ret.val.command_id = o

\* the nodes that hold a token
TokenHolders(pair_token) == {m \in Rows(nodes) : nodes[m].pair_token = pair_token}

\* C32: record_heartbeat with an empty token returns missing_token, with a token
\* stored on no node invalid_token, and with a token stored on a node other than
\* node_id node_mismatch; in all three cases no field of any node changes and no
\* log entry is appended.
C32_HeartbeatRejections ==
    [][\A t \in TokenInputs, n \in NodeIds, c \in CapabilityInputs :
        (ret'.fn = "record_heartbeat" /\ post_heartbeat(t, n, c)) =>
            /\ t = Null => ret'.status = "missing_token"
            /\ (t # Null /\ TokenHolders(t) = {}) => ret'.status = "invalid_token"
            /\ (t # Null /\ TokenHolders(t) # {} /\ n \notin TokenHolders(t)) => ret'.status = "node_mismatch"
            /\ ret'.status \in {"missing_token", "invalid_token", "node_mismatch"} =>
                    /\ nodes' = nodes
                    /\ node_logs' = node_logs
                    /\ log_seq' = log_seq]_vars

\* a heartbeat carrying the token of one paired node was sent for another node that
\* exists, and was refused
C32_Witness ==
    /\ ret.fn = "record_heartbeat"
    /\ ret.status = "node_mismatch"
    /\ \E n, m \in Rows(nodes) : n # m /\ nodes[n].pair_token = ret.arg /\ nodes[m].state = NODE_STATE_PAIRED

\* C33: a second delivery of the succeeded result of a delete, which arrives after
\* the first one has removed the VM row, is a no-op: it raises no error and changes
\* nothing.  Once the succeeded result of an operation has been delivered twice,
\* the last delivery was answered without an error (ok, or not_found when the
\* operation went with its VM) and, for a delete, the VM row is gone.
C33_SecondDeleteSuccessNoOp ==
    \A o \in OpIds :
        (delivered[o] >= 2 /\ ret.fn = "apply_vm_command_result" /\ ret.arg = o) =>
            /\ ret.status \in {"ok", "not_found"}
            /\ resp = Resp("post_agent_command_result", IF ret.status = "ok" THEN 200 ELSE 404)
            /\ (o \in Rows(vm_operations) /\ vm_operations[o].operation_type = "delete") => vm_operations[o].vm_id \notin Rows(node_vms)

\* the ids a stream has sent, in the order sent
RECURSIVE SentIds(_)
SentIds(sent) == IF sent = <<>> THEN <<>> ELSE SentIds(SubSeq(sent, 1, Len(sent) - 1)) \o sent[Len(sent)].items

StrictlyIncreasing(ids) == \A i \in 1..(Len(ids) - 1) : ids[i] < ids[i + 1]

\* the log rows of the streamed node that the stream has not sent yet
Outstanding == {i \in DOMAIN node_logs : node_logs[i].node_id = log_stream.node_id /\ \A k \in DOMAIN SentIds(log_stream.sent) : SentIds(log_stream.sent)[k] # node_logs[i].id}

\* the ids log rows may take in a run
LogIds == 1..(MaxClock + 4)

\* C34 as stated: the first message of a push log stream is a snapshot and every
\* later message is a non-empty append.
C34_SnapshotThenAppends ==
    \A i \in DOMAIN log_stream.sent :
        IF i = 1 THEN log_stream.sent[i].type = "snapshot"
        ELSE log_stream.sent[i].type = "append" /\ log_stream.sent[i].items # <<>>

\* the messages of a stream: a snapshot, then non-empty appends; node_not_found is
\* the only other message, and it is the last one of a stream that has closed
StreamMessagesOk ==
    \A i \in DOMAIN log_stream.sent :
        \/ log_stream.sent[i].type = "error" /\ i = Len(log_stream.sent) /\ log_stream.pc = "closed"
        \/ i = 1 /\ log_stream.sent[i].type = "snapshot"
        \/ i > 1 /\ log_stream.sent[i].type = "append" /\ log_stream.sent[i].items # <<>>

\* C34: on a push log stream the first message is a snapshot and every later one a
\* non-empty append, but for node_not_found, which is sent for a missing node and
\* ends the stream; across the snapshot and the appends the entry ids are strictly
\* increasing, so no entry is sent twice; and every entry appended to the node after
\* the snapshot is eventually sent while the stream stays open, also when more than
\* limit entries are appended between two polls.
C34_StreamDelivers ==
    /\ [](StreamMessagesOk /\ StrictlyIncreasing(SentIds(log_stream.sent)))
    /\ \A id \in LogIds :
        [](((log_stream.pc = "open" /\ \E i \in Outstanding : node_logs[i].id = id /\ id > log_stream.sent[1].next_since_id))
            => <>(log_stream.pc = "closed" \/ \E k \in DOMAIN SentIds(log_stream.sent) : SentIds(log_stream.sent)[k] = id))

\* a stream that has sent an append still has more entries to send than its limit
\* lets one poll carry
C34_Witness ==
    /\ log_stream.pc = "open"
    /\ Len(log_stream.sent) >= 2
    /\ Cardinality({i \in Outstanding : node_logs[i].id > log_stream.since_id}) > log_stream.limit

\* ------------------------------------------------------------ C35
\* C35: after a 401/403 the control loop stops the workers, clears the pairing state,
\* pairs again and restarts the workers with the new node_id and pair_token; no worker
\* uses the old token after the restart: no request goes out with the token of a
\* generation once workers of a newer generation have been started.
C35_NoOldTokenAfterRestart == agent_process.late = {}

\* the loop tears down a pairing only when the master refuses its token
C35_TeardownOnlyWhenRefused ==
    (agent_process.pc = "stop") => (agent_process.accepted # agent_process.state)

\* ------------------------------------------------------------ C36
\* C36: an open for a domain that already has a session closes the older session first
\* (every older session of the domain that is still registered has been stopped with
\* send_exit off), no terminal_exit is sent for a session an open has displaced, and
\* once the new session is registered the domain maps to the newest session only.
C36_DisplacedWithoutExit ==
    /\ \A s \in OpenIds : terminal_manager.sessions[s].displaced
            => TerminalFrame(s, "terminal_exit") \notin terminal_manager.frames
    /\ \A s, t \in OpenIds :
            (s < t /\ terminal_manager.sessions[s].registered /\ terminal_manager.sessions[t].registered
                /\ terminal_manager.sessions[s].domain = terminal_manager.sessions[t].domain)
            => (terminal_manager.sessions[s].stop /\ ~terminal_manager.sessions[s].send_exit
                /\ terminal_manager.sessions[s].displaced)
    /\ \A d \in Domains : \A t \in OpenIds :
            (terminal_manager.sessions[t].registered /\ terminal_manager.sessions[t].domain = d
                /\ \A u \in OpenIds : (u > t /\ terminal_manager.sessions[u].domain = d) => terminal_manager.sessions[u].process = "none")
            => terminal_manager.vm_domain_to_session[d] = t

\* a displaced session whose reader has ended after the new session was registered,
\* and another whose reader ended before it
C36_Witness ==
    \E s, t \in OpenIds :
        /\ s < t
        /\ terminal_manager.sessions[s].displaced
        /\ terminal_manager.sessions[s].reader = "done"
        /\ TerminalFrame(s, "terminal_data") \in terminal_manager.frames
        /\ terminal_manager.sessions[t].registered
        /\ terminal_manager.sessions[t].domain = terminal_manager.sessions[s].domain
        /\ terminal_manager.vm_domain_to_session[terminal_manager.sessions[t].domain] = t

\* ------------------------------------------------------------ C37
\* C37: when two pair_node calls with the same pending pair code interleave, at most
\* one returns paired (the other already_paired), and the pair_token returned to the
\* successful caller is the token stored on the node.
C37_AtMostOnePaired ==
    /\ \A k1, k2 \in PairCallIds :
            (k1 # k2 /\ pair_calls[k1].returned.status = "paired" /\ pair_calls[k2].returned.status = "paired")
            => pair_calls[k1].returned.node # pair_calls[k2].returned.node
    /\ \A k \in PairCallIds :
            pair_calls[k].returned.status = "paired"
            => nodes[pair_calls[k].returned.node].pair_token = pair_calls[k].returned.token

\* ------------------------------------------------------------ C38
\* session s was opened after connection d became current: the log row of the open
\* follows the log row of d's authentication
OpenedUnder(s, d) ==
    \E j, k \in DOMAIN node_logs :
        /\ j < k
        /\ node_logs[j].message = "Agent websocket connected" /\ node_logs[j].meta.ref = d
        /\ node_logs[k].message = "Terminal session opened" /\ node_logs[k].meta.ref = s

\* the messages on the node's outbound list that were enqueued since connection d
\* became current: the frames of the sessions opened under d
QueuedSince(d) ==
    LET messages == GetList(AGENT_WS_OUTBOUND_MESSAGES, conn[d].node_id)
    IN  {i \in DOMAIN messages : messages[i].session_id # Null /\ OpenedUnder(messages[i].session_id, d)}

\* C38: the exit cleanup of a connection never discards messages enqueued after a
\* newer connection of the node became current: a handler that stands before its
\* _clear_agent_ws_messages (which pops the node's whole list) while another
\* connection is current finds no message on the list that was enqueued since.
C38_CleanupSparesNewerMessages ==
    \A c, d \in ConnIds :
        (conn[c].pc = "clear" /\ d # c /\ conn[d].node_id = conn[c].node_id
            /\ is_current_agent_connection(conn[d].node_id, d))
        => QueuedSince(d) = {}

\* ------------------------------------------------------------ C39
\* C39: a terminal_data, terminal_exit or terminal_error frame received on a
\* connection authenticated for node A is enqueued only onto a session of node A; a
\* frame naming a session of another node is answered with an error frame and leaves
\* that session's queue unchanged.
C39_FramesStayOnNode ==
    [][\A c \in ConnIds, m \in TerminalFrames :
            (conn[c].pc = "receive" /\ conn[c].node_id # Null /\ m.session_id \in DOMAIN TERMINAL_SESSIONS
                /\ TERMINAL_SESSIONS[m.session_id].node_id # conn[c].node_id /\ ws_agent_receive_frame(c, m))
            => (/\ TERMINAL_SESSIONS' = TERMINAL_SESSIONS
                /\ Len(conn'[c].sent) = Len(conn[c].sent) + 1
                /\ conn'[c].sent[Len(conn'[c].sent)].type = "error")]_vars

\* ------------------------------------------------------------ C40
\* the operations and VMs of the other nodes are what they were
OthersUntouched(node_id) ==
    /\ \A o \in Rows(vm_operations) : vm_operations[o].node_id # node_id
            => (o \in Rows(vm_operations') /\ vm_operations'[o] = vm_operations[o])
    /\ \A v \in Rows(node_vms) : node_vms[v].node_id # node_id
            => (v \in Rows(node_vms') /\ node_vms'[v] = node_vms[v])

====
